---- MODULE Spec2Model ----
(***************************************************************************)
(* A model of opkssh: the verify command of the command dispatcher, the    *)
(* provider resolution of login, the writing of the key files under        *)
(* ~/.ssh, and the auto-refresh loop of LoginWithRefresh.                  *)
(*                                                                         *)
(* Each part has its own specification over the module's variables:        *)
(*   SpecVerify    run (case "verify") and the verifier it calls           *)
(*   SpecProvider  LoginCmd.determineProvider                              *)
(*   SpecKeys      LoginCmd.writeKeysToSSHDir / writeKeys                  *)
(*   SpecRefresh   LoginCmd.LoginWithRefresh                               *)
(* A specification leaves the variables of the other parts unchanged.      *)
(***************************************************************************)
EXTENDS Integers, Sequences, FiniteSets, TLC

VARIABLES
    \* ---- verify command (run, case "verify") ----
    v_pc,        \* position of run()
    v_in,        \* os.Args of the run: [argc, user, typ, cert]
    v_env,       \* what the run finds on the host: [provOk, logOpenOk, policy, expPolicy, now]
    v_logTo,     \* where the log package writes: "stderr" or "file"
    v_stdout,    \* lines written to stdout, in order
    v_logged,    \* number of lines written through the log package
    v_checks,    \* the verifier's checks that have succeeded so far
    v_ret,       \* what Verify returned: [line, err]
    v_exit,      \* exit code of the process, -1 while it runs
    \* ---- provider resolution (LoginCmd.determineProvider) ----
    p_pc,        \* "start" before the call, "done" after it
    p_in,        \* flags, environment and client config the call reads
    p_res,       \* what the call returned: [kind, op, list, err]
    \* ---- key files under ~/.ssh (writeKeysToSSHDir, writeKeys) ----
    k_fs,        \* the files: path -> [st, data]
    k_n,         \* number of logins and refreshes run so far
    k_signer,    \* the ephemeral key of the last successful login, for its refreshes
    k_anchor,    \* the default path whose pair the last change of ~/.ssh left complete
    k_first,     \* the path the first successful default-location login wrote
    k_clean,     \* no run has returned an error so far
    k_last,      \* the last run: [op, err, path, anchor, first, before, sec, cert]
    \* ---- login --auto-refresh (LoginWithRefresh) ----
    r_pc,        \* position of LoginWithRefresh
    r_arg,       \* seckeyPath, "" without --output-key
    r_now,       \* the wall clock, in minutes
    r_cancel,    \* the context is cancelled (ctx.Done() is closed)
    r_fs,        \* the key files
    r_signer,    \* loginResult.signer
    r_principals,
                 \* loginResult.principals
    r_pkt,       \* loginResult.pkt: [id, upk, exp]
    r_cert,      \* certBytes, seckeySshPem of the last createSSHCert
    r_claims,    \* claims.Expiration
    r_ret,       \* the returned error [step, err], NoRet while running
    r_hist,      \* what has happened: counters and the last select, Refresh, cancel
    \* ---- opkssh login (LoginCmd.Run) ----
    u_pc,        \* position of Run
    u_in,        \* the flags and what the run finds on the host
    u_cfgFile,   \* the file at the config path: [st, data]
    u_config,    \* l.config
    u_res,       \* what determineProvider returned
    u_provider,  \* the provider Run logs in with
    u_log,       \* the messages written through the log package
    u_ret,       \* the error Run returned, NoVal for nil
    u_hist,      \* what has happened: [authStarted, keyWrites, resolved]
    \* ---- server config (VerifyCmd.SetEnvVarInConfig) ----
    s_pc,        \* "start" before the call, "done" after it
    s_in,        \* the server config file, the process environment before the call, the host
    s_env,       \* the process environment: name -> value, NoVal if unset
    s_ret,       \* the returned error, NoVal for nil
    \* ---- opkssh add (run, case "add"), one process per invocation ----
    a_pc,        \* process -> position
    a_args,      \* process -> os.Args[2:]
    a_file,      \* the policy file: the sequence of its rows
    a_lock,      \* the process that holds the lock on the policy file, 0 if none
    a_local,     \* process -> [rows, dup, tmp, after]: what it read and prepared
    a_exit,      \* process -> [code, stdout]: exit code (-1 while it runs), lines on stdout
    \* ---- expiration policy (verification of one PK Token) ----
    e_pc,        \* "start" before the verification, "done" after it
    e_in,        \* the provider's expiration_policy, the PK Token, the time
    e_err,       \* the error of the verification, NoVal if the token is accepted
    \* ---- two logins writing key files ----
    w_pc,        \* each login process's position in login's key-writing part
    w_in,        \* each process's --output-key, empty when not given
    w_path,      \* the seckeyPath each process writes to
    w_fs,        \* the files under ~/.ssh and at --output-key
    w_err,       \* what each process's key writing returned
    w_written    \* the secret key paths a WriteFile of opkssh has changed

vVars == <<v_pc, v_in, v_env, v_logTo, v_stdout, v_logged, v_checks, v_ret, v_exit>>
pVars == <<p_pc, p_in, p_res>>
kVars == <<k_fs, k_n, k_signer, k_anchor, k_first, k_clean, k_last>>
rVars == <<r_pc, r_arg, r_now, r_cancel, r_fs, r_signer, r_principals, r_pkt, r_cert, r_claims, r_ret, r_hist>>
uVars == <<u_pc, u_in, u_cfgFile, u_config, u_res, u_provider, u_log, u_ret, u_hist>>
sVars == <<s_pc, s_in, s_env, s_ret>>
aVars == <<a_pc, a_args, a_file, a_lock, a_local, a_exit>>
eVars == <<e_pc, e_in, e_err>>
wVars == <<w_pc, w_in, w_path, w_fs, w_err, w_written>>
vars == <<vVars, pVars, kVars, rVars, uVars, sVars, aVars, eVars, wVars>>

NoVal == "none"

(***************************************************************************)
(* PK Token, SSH certificate (spec sections 3, 4.1, 4.2)                   *)
(***************************************************************************)
CertType == "ecdsa-sha2-nistp256-cert-v01@openssh.com"
PktExtension == "openpubkey-pkt"
Issuer == "http://oidc.local:9998/"
ClientID == "web"
Users == {"test", "test2"}
Keys == {"k1", "k2"}

\* bounds of the verifier part
MaxNow == 3
Lifetime == 2

\* the refresh signature of a PK Token: present or not, valid or not, its exp
Refresh(present, valid, exp) == [present |-> present, valid |-> valid, exp |-> exp]
NoRefresh == Refresh(FALSE, FALSE, 0)

\* a PK Token freshly generated at time t for the ephemeral key k
FreshPkt(k, t) ==
    [opSig |-> "valid", cicSig |-> "valid", nonce |-> "bound",
     iss |-> Issuer, aud |-> ClientID, iat |-> t, exp |-> t + Lifetime, upk |-> k,
     refresh |-> NoRefresh]

\* the token after tampering with one of its parts
Tamper(pkt, part) ==
    CASE part = "opSig"  -> [pkt EXCEPT !.opSig = "bad"]
      [] part = "cicSig" -> [pkt EXCEPT !.cicSig = "bad"]
      [] part = "nonce"  -> [pkt EXCEPT !.nonce = "unbound"]
      [] part = "iss"    -> [pkt EXCEPT !.iss = "http://other/"]
      [] part = "aud"    -> [pkt EXCEPT !.aud = "other"]
      [] OTHER           -> pkt

\* Issue (4.2): the certificate carries the serialized token in its extension and
\* is signed by the ephemeral key, which is also the certified key
IssueCert(pkt) ==
    [typ |-> CertType, ext |-> <<PktExtension, pkt>>, key |-> pkt.upk, signedBy |-> pkt.upk]

NoPktCert(k) ==
    [typ |-> CertType, ext |-> <<"permit-pty", FreshPkt(k, 0)>>, key |-> k, signedBy |-> k]

\* Parse (4.2): reject a foreign type, then extract the token from the extension
ParseCert(typ, cert) ==
    IF typ # CertType \/ cert.typ # CertType THEN [err |-> "CERT_TYPE", pkt |-> NoVal]
    ELSE IF cert.ext[1] # PktExtension THEN [err |-> "CERT_NO_PKT", pkt |-> NoVal]
    ELSE [err |-> NoVal, pkt |-> cert.ext[2]]

\* Resolve provider (4.3 step 3): the registry holds the one provider Issuer
ResolveProvider(pkt) ==
    IF pkt.iss = Issuer THEN NoVal ELSE "PROVIDER_UNKNOWN"

\* max_age:<d>: the duration of the setting
MaxAgePolicies == {"max_age:1", "max_age:2"}
MaxAgeOf(policy) == IF policy = "max_age:1" THEN 1 ELSE 2

\* a verifier that knows oidc and never_expire only
ExpirationOkOidcOnly(policy, pkt, now) ==
    CASE policy = "never_expire" -> TRUE
      [] policy = "oidc"         -> now < pkt.exp
      [] OTHER                   -> now < pkt.exp

\* Expiration policy (4.5); a provider without a setting is treated as oidc
ExpirationOk(policy, pkt, now) ==
    CASE policy = "never_expire"   -> TRUE
      [] policy = "oidc"           -> now < pkt.exp
      [] policy = "oidc_refreshed" ->
            pkt.refresh.present /\ pkt.refresh.valid /\ now < pkt.refresh.exp
      [] policy \in MaxAgePolicies -> now - pkt.iat < MaxAgeOf(policy)
      [] OTHER                     -> now < pkt.exp

\* Verification contract (4.1)
VerifyPkt(pkt, policy, now) ==
    IF pkt.opSig # "valid" \/ pkt.cicSig # "valid" THEN "PKT_BAD_SIG"
    ELSE IF pkt.nonce # "bound" THEN "PKT_BIND"
    ELSE IF pkt.aud # ClientID THEN "PKT_AUDIENCE"
    ELSE IF pkt.iss # Issuer THEN "PKT_ISSUER"
    ELSE IF ~ExpirationOk(policy, pkt, now) THEN "PKT_EXPIRED"
    ELSE NoVal

\* Policy check (4.6): some row grants the principal to the identity
CheckPolicy(rows, user) ==
    IF user \in rows THEN NoVal ELSE "POLICY_DENY"

\* the line sshd waits for
AuthLine(k) == <<"cert-authority", "ecdsa-sha2-nistp256", k>>

(***************************************************************************)
(* run(), case "verify"                                                    *)
(***************************************************************************)
VerifyCerts ==
    {IssueCert(FreshPkt(k, 0)) : k \in Keys}
    \cup {IssueCert(Tamper(FreshPkt("k1", 0), p)) : p \in {"opSig", "cicSig", "nonce", "iss", "aud"}}
    \cup {NoPktCert("k1")}

VerifyInputs ==
    [argc : 3..6, user : Users, typ : {CertType, "ssh-ed25519"}, cert : VerifyCerts]

VerifyEnvs ==
    [provOk : BOOLEAN, logOpenOk : BOOLEAN, policy : SUBSET Users,
     expPolicy : {"oidc", "never_expire", ""}, now : 0..MaxNow]

\* the parts a specification does not run stay as they are
notV == <<pVars, kVars, rVars, uVars, sVars, aVars, eVars, wVars>>
notP == <<vVars, kVars, rVars, uVars, sVars, aVars, eVars, wVars>>
notK == <<vVars, pVars, rVars, uVars, sVars, aVars, eVars, wVars>>
notR == <<vVars, pVars, kVars, uVars, sVars, aVars, eVars, wVars>>
notU == <<vVars, pVars, kVars, rVars, sVars, aVars, eVars, wVars>>
notS == <<vVars, pVars, kVars, rVars, uVars, aVars, eVars, wVars>>
notA == <<vVars, pVars, kVars, rVars, uVars, sVars, eVars, wVars>>
notE == <<vVars, pVars, kVars, rVars, uVars, sVars, aVars, wVars>>
notW == <<vVars, pVars, kVars, rVars, uVars, sVars, aVars, eVars>>
IdleWriters ==
    /\ w_pc = "idle"
    /\ w_in = NoVal
    /\ w_path = NoVal
    /\ w_fs = NoVal
    /\ w_err = NoVal
    /\ w_written = NoVal
IdleExpiry ==
    /\ e_pc = "idle"
    /\ e_in = NoVal
    /\ e_err = NoVal
IdleAdd ==
    /\ a_pc = "idle"
    /\ a_args = NoVal
    /\ a_file = NoVal
    /\ a_lock = NoVal
    /\ a_local = NoVal
    /\ a_exit = NoVal
IdleServerConfig ==
    /\ s_pc = "idle"
    /\ s_in = NoVal
    /\ s_env = NoVal
    /\ s_ret = NoVal
IdleRun ==
    /\ u_pc = "idle"
    /\ u_in = NoVal
    /\ u_cfgFile = NoVal
    /\ u_config = NoVal
    /\ u_res = NoVal
    /\ u_provider = NoVal
    /\ u_log = {}
    /\ u_ret = NoVal
    /\ u_hist = NoVal
IdleVerify ==
    /\ v_pc = "idle"
    /\ v_in = NoVal
    /\ v_env = NoVal
    /\ v_logTo = "stderr"
    /\ v_stdout = <<>>
    /\ v_logged = 0
    /\ v_checks = {}
    /\ v_ret = [line |-> NoVal, err |-> NoVal]
    /\ v_exit = -1
IdleProvider ==
    /\ p_pc = "idle"
    /\ p_in = NoVal
    /\ p_res = NoVal
IdleRefresh ==
    /\ r_pc = "idle"
    /\ r_arg = NoVal
    /\ r_now = 0
    /\ r_cancel = FALSE
    /\ r_fs = NoVal
    /\ r_signer = NoVal
    /\ r_principals = NoVal
    /\ r_pkt = NoVal
    /\ r_cert = NoVal
    /\ r_claims = 0
    /\ r_ret = NoVal
    /\ r_hist = NoVal
IdleKeys ==
    /\ k_fs = NoVal
    /\ k_n = 0
    /\ k_signer = NoVal
    /\ k_anchor = NoVal
    /\ k_first = NoVal
    /\ k_clean = TRUE
    /\ k_last = NoVal

InitVerify ==
    /\ IdleWriters
    /\ IdleExpiry
    /\ IdleAdd
    /\ IdleServerConfig
    /\ IdleRun
    /\ IdleProvider
    /\ IdleKeys
    /\ IdleRefresh
    /\ v_pc = "start"
    /\ v_in \in VerifyInputs
    /\ v_env \in VerifyEnvs
    /\ v_logTo = "stderr"
    /\ v_stdout = <<>>
    /\ v_logged = 0
    /\ v_checks = {}
    /\ v_ret = [line |-> NoVal, err |-> NoVal]
    /\ v_exit = -1

\* log.Println: to the log file once log.SetOutput was called, else to stderr;
\* never to stdout
LogPrintln == v_logged' = v_logged + 1

VExit(code) == v_pc' = "exit" /\ v_exit' = code

\* provider.NewGoogleProvider; on failure log and return 1
V_NewProvider ==
    /\ UNCHANGED notV
    /\ v_pc = "start"
    /\ IF v_env.provOk
       THEN /\ v_pc' = "openlog"
            /\ UNCHANGED <<v_exit, v_logged>>
       ELSE /\ LogPrintln
            /\ VExit(1)
    /\ UNCHANGED <<v_in, v_env, v_logTo, v_stdout, v_checks, v_ret>>

\* os.OpenFile("/var/log/openpubkey.log"): on failure fmt.Println("ERROR opening
\* log file:", err), which writes to stdout; else log.SetOutput(logFile)
OpenLogEffect ==
    IF v_env.logOpenOk
    THEN v_logTo' = "file" /\ UNCHANGED v_stdout
    ELSE v_stdout' = Append(v_stdout, <<"ERROR opening log file:">>) /\ UNCHANGED v_logTo

V_OpenLog ==
    /\ UNCHANGED notV
    /\ v_pc = "openlog"
    /\ OpenLogEffect
    /\ v_pc' = "args"
    /\ UNCHANGED <<v_in, v_env, v_logged, v_checks, v_ret, v_exit>>

\* log.Println(os.Args); len(os.Args) != 5 logs and returns 1
V_CheckArgs ==
    /\ UNCHANGED notV
    /\ v_pc = "args"
    /\ IF v_in.argc # 5
       THEN /\ v_logged' = v_logged + 2
            /\ VExit(1)
       ELSE /\ LogPrintln
            /\ v_pc' = "parse"
            /\ UNCHANGED v_exit
    /\ UNCHANGED <<v_in, v_env, v_logTo, v_stdout, v_checks, v_ret>>

\* Verify, step 2: parse the certificate
V_ParseCert ==
    /\ UNCHANGED notV
    /\ v_pc = "parse"
    /\ LET r == ParseCert(v_in.typ, v_in.cert) IN
       IF r.err # NoVal
       THEN v_ret' = [line |-> NoVal, err |-> r.err] /\ v_pc' = "returned" /\ UNCHANGED v_checks
       ELSE v_checks' = v_checks \cup {"cert"} /\ v_pc' = "pkt" /\ UNCHANGED v_ret
    /\ UNCHANGED <<v_in, v_env, v_logTo, v_stdout, v_logged, v_exit>>

\* Verify, steps 3 and 4: resolve the provider, verify the PK Token
V_VerifyPkt ==
    /\ UNCHANGED notV
    /\ v_pc = "pkt"
    /\ LET pkt == ParseCert(v_in.typ, v_in.cert).pkt
           e1 == ResolveProvider(pkt)
           e2 == VerifyPkt(pkt, v_env.expPolicy, v_env.now)
           err == IF e1 # NoVal THEN e1 ELSE e2 IN
       IF err # NoVal
       THEN v_ret' = [line |-> NoVal, err |-> err] /\ v_pc' = "returned" /\ UNCHANGED v_checks
       ELSE v_checks' = v_checks \cup {"pkt"} /\ v_pc' = "policy" /\ UNCHANGED v_ret
    /\ UNCHANGED <<v_in, v_env, v_logTo, v_stdout, v_logged, v_exit>>

\* Verify, steps 5 and 6: the policy check for the requested user
V_CheckPolicy ==
    /\ UNCHANGED notV
    /\ v_pc = "policy"
    /\ LET err == CheckPolicy(v_env.policy, v_in.user) IN
       IF err # NoVal
       THEN v_ret' = [line |-> NoVal, err |-> err] /\ v_pc' = "returned" /\ UNCHANGED v_checks
       ELSE v_checks' = v_checks \cup {"policy"} /\ v_pc' = "emit" /\ UNCHANGED v_ret
    /\ UNCHANGED <<v_in, v_env, v_logTo, v_stdout, v_logged, v_exit>>

\* Verify, step 7: the authority line for the ephemeral public key
V_Emit ==
    /\ UNCHANGED notV
    /\ v_pc = "emit"
    /\ v_ret' = [line |-> AuthLine(v_in.cert.key), err |-> NoVal]
    /\ v_pc' = "returned"
    /\ UNCHANGED <<v_in, v_env, v_logTo, v_stdout, v_logged, v_checks, v_exit>>

\* a dispatcher that prints whatever Verify returned
PrintAlways(ret) == TRUE

\* run prints authKey only when Verify returned no error
PrintsAuthKey(ret) == ret.err = NoVal

\* if authKey, err := v.Verify(...); err != nil { log; return 1 } else { fmt.Println(authKey) }
V_Return ==
    /\ UNCHANGED notV
    /\ v_pc = "returned"
    /\ IF PrintsAuthKey(v_ret)
       THEN /\ v_stdout' = Append(v_stdout, v_ret.line)
            /\ VExit(0)
            /\ UNCHANGED v_logged
       ELSE /\ LogPrintln
            /\ VExit(1)
            /\ UNCHANGED v_stdout
    /\ UNCHANGED <<v_in, v_env, v_logTo, v_checks, v_ret>>

NextVerify ==
    \/ V_NewProvider
    \/ V_OpenLog
    \/ V_CheckArgs
    \/ V_ParseCert
    \/ V_VerifyPkt
    \/ V_CheckPolicy
    \/ V_Emit
    \/ V_Return

SpecVerify == InitVerify /\ [][NextVerify]_vars

(***************************************************************************)
(* Claims about the verify command                                         *)
(***************************************************************************)
AllChecks == {"cert", "pkt", "policy"}

\* every check of the verifier succeeds on the run's inputs
ChecksSucceed ==
    LET r == ParseCert(v_in.typ, v_in.cert) IN
    /\ r.err = NoVal
    /\ ResolveProvider(r.pkt) = NoVal
    /\ VerifyPkt(r.pkt, v_env.expPolicy, v_env.now) = NoVal
    /\ CheckPolicy(v_env.policy, v_in.user) = NoVal

VerifyCalled == v_pc = "returned" \/ (v_pc = "exit" /\ v_in.argc = 5 /\ v_env.provOk)

\* C1: a finished run of verify either exited 0 having written exactly the one
\* cert-authority line to stdout, or exited nonzero having written nothing to stdout.
C1_StdoutContract ==
    v_pc = "exit" =>
        \/ v_exit = 0 /\ v_stdout = <<AuthLine(v_in.cert.key)>>
        \/ v_exit # 0 /\ v_stdout = <<>>

\* C2: Verify returns the cert-authority line exactly when certificate parsing, PK
\* Token verification and the policy check have all succeeded, and only after the
\* last of them; a failure returns an error and no line; a certificate issued from a
\* fresh PK Token is accepted under never_expire and an allowing policy; and run
\* exits 0 (printing the line) only when all checks have succeeded.
C2_LineIffAllChecks ==
    /\ v_ret.line # NoVal =>
          v_checks = AllChecks /\ v_ret.err = NoVal /\ v_ret.line = AuthLine(v_in.cert.key)
    /\ VerifyCalled => (v_ret.line # NoVal <=> ChecksSucceed)
    /\ VerifyCalled => (v_ret.err # NoVal <=> ~ChecksSucceed)
    /\ v_checks # AllChecks => v_ret.line = NoVal
    /\ (/\ VerifyCalled
        /\ v_in.typ = CertType
        /\ \E k \in Keys : v_in.cert = IssueCert(FreshPkt(k, 0))
        /\ v_env.expPolicy = "never_expire"
        /\ v_in.user \in v_env.policy) => v_ret.line = AuthLine(v_in.cert.key)
    /\ v_exit = 0 => v_checks = AllChecks /\ v_stdout[Len(v_stdout)] = v_ret.line
    /\ (v_pc = "exit" /\ v_ret.err # NoVal) =>
          v_exit = 1 /\ \A i \in 1..Len(v_stdout) : v_stdout[i] # AuthLine(v_in.cert.key)

\* a fresh certificate, long past the token's exp, accepted under never_expire
C2_Witness ==
    /\ v_pc = "exit"
    /\ v_exit = 0
    /\ v_in.cert = IssueCert(FreshPkt("k2", 0))
    /\ v_env.expPolicy = "never_expire"
    /\ v_env.now > Lifetime
    /\ v_stdout = <<AuthLine("k2")>>

(***************************************************************************)
(* Provider resolution: LoginCmd.determineProvider                         *)
(***************************************************************************)
WEBCHOOSER_ALIAS == "WEBCHOOSER"
SupportedIssuers == {"https://accounts.google.com", "https://gitlab.com"}

\* strings.ToUpper on the aliases of the model
ToUpper(s) ==
    CASE s = "webchooser" -> "WEBCHOOSER"
      [] s = "a"          -> "A"
      [] s = "b"          -> "B"
      [] OTHER            -> s

NoProvider == [alias |-> "", issuer |-> "", src |-> ""]
ProviderConfig(alias, issuer, src) == [alias |-> alias, issuer |-> issuer, src |-> src]

ResOp(op)       == [kind |-> "op", op |-> op, list |-> <<>>, err |-> NoVal]
ResChooser(l)   == [kind |-> "chooser", op |-> NoProvider, list |-> l, err |-> NoVal]
ResErr(e)       == [kind |-> "err", op |-> NoProvider, list |-> <<>>, err |-> e]

\* config.NewProviderConfigFromString: a provider string is its comma-separated
\* fields <<issuer, client_id, ...>>; fewer than two fields do not parse
NewProviderConfigFromString(str) ==
    IF Len(str) < 2 THEN [err |-> "invalid provider config string", cfg |-> NoProvider]
    ELSE [err |-> NoVal, cfg |-> ProviderConfig("", str[1], "arg")]

\* ProviderConfig.ToProvider: only the issuers with a provider implementation
ToProvider(cfg) ==
    IF cfg.issuer \in SupportedIssuers
    THEN [err |-> NoVal, op |-> cfg]
    ELSE [err |-> "unsupported issuer", op |-> NoProvider]

\* config.GetProvidersConfigFromEnv: OPKSSH_PROVIDERS unset gives nil, nil
GetProvidersConfigFromEnv(env) ==
    IF env.state = "unset" THEN [err |-> NoVal, isNil |-> TRUE, list |-> <<>>]
    ELSE IF env.state = "malformed"
    THEN [err |-> "invalid provider config string", isNil |-> TRUE, list |-> <<>>]
    ELSE [err |-> NoVal, isNil |-> FALSE, list |-> env.list]

\* config.CreateProvidersMap: alias -> config; a repeated alias is an error
CreateProvidersMap(list) ==
    IF \E i, j \in 1..Len(list) : i # j /\ list[i].alias = list[j].alias
    THEN [err |-> "duplicate provider alias", map |-> {}]
    ELSE [err |-> NoVal, map |-> {list[i] : i \in 1..Len(list)}]

\* a resolution that lets the environment's default win over --provider-alias
ResolveAliasEnvFirst(in) ==
    IF in.envDefault # "" THEN in.envDefault
    ELSE IF in.aliasArg # "" THEN in.aliasArg
    ELSE IF in.cfgDefault # "" THEN in.cfgDefault
    ELSE WEBCHOOSER_ALIAS

\* login.go 210-218: defaultProviderAlias
ResolveAlias(in) ==
    IF in.aliasArg # "" THEN in.aliasArg
    ELSE IF in.envDefault # "" THEN in.envDefault
    ELSE IF in.cfgDefault # "" THEN in.cfgDefault
    ELSE WEBCHOOSER_ALIAS

\* a resolution that appends the config file's providers to the environment's
ResolveProviderConfigsMerged(in, fromEnv) ==
    IF ~fromEnv.isNil THEN [err |-> NoVal, list |-> fromEnv.list \o in.cfgProviders]
    ELSE IF Len(in.cfgProviders) > 0 THEN [err |-> NoVal, list |-> in.cfgProviders]
    ELSE [err |-> "no providers specified", list |-> <<>>]

\* login.go 220-226: providerConfigs
ResolveProviderConfigs(in, fromEnv) ==
    IF ~fromEnv.isNil THEN [err |-> NoVal, list |-> fromEnv.list]
    ELSE IF Len(in.cfgProviders) > 0 THEN [err |-> NoVal, list |-> in.cfgProviders]
    ELSE [err |-> "no providers specified", list |-> <<>>]

\* login.go 243-256: every config of the list becomes a provider of the chooser
NewWebChooser(list) ==
    IF \E i \in 1..Len(list) : ToProvider(list[i]).err # NoVal
    THEN ResErr("error creating provider from config")
    ELSE ResChooser([i \in 1..Len(list) |-> ToProvider(list[i]).op])

\* login.go 228-242: the alias is looked up in the list
LookupAlias(alias, list) ==
    LET m == CreateProvidersMap(list) IN
    IF m.err # NoVal THEN ResErr("error creating provider map")
    ELSE IF ~\E c \in m.map : c.alias = alias THEN ResErr("error getting provider config for alias")
    ELSE LET c == CHOOSE c \in m.map : c.alias = alias
             op == ToProvider(c) IN
         IF op.err # NoVal THEN ResErr("error creating provider from config")
         ELSE ResOp(op.op)

determineProvider(in) ==
    IF in.providerArg # <<>>
    THEN LET pc == NewProviderConfigFromString(in.providerArg) IN
         IF pc.err # NoVal THEN ResErr("error parsing provider argument")
         ELSE LET op == ToProvider(pc.cfg) IN
              IF op.err # NoVal THEN ResErr("error creating provider from config")
              ELSE ResOp(op.op)
    ELSE LET fromEnv == GetProvidersConfigFromEnv(in.envProviders) IN
         IF fromEnv.err # NoVal THEN ResErr("error getting provider config from env")
         ELSE LET alias == ResolveAlias(in)
                  cfgs == ResolveProviderConfigs(in, fromEnv) IN
              IF cfgs.err # NoVal THEN ResErr(cfgs.err)
              ELSE IF ToUpper(alias) # WEBCHOOSER_ALIAS THEN LookupAlias(alias, cfgs.list)
              ELSE NewWebChooser(cfgs.list)

Aliases == {"", "a", "b", "webchooser", "WEBCHOOSER"}

ProviderArgs ==
    {<<>>, <<"https://accounts.google.com", "cid">>, <<"https://accounts.google.com">>,
     <<"https://unknown.example", "cid">>}

ProvA(src) == ProviderConfig("a", "https://accounts.google.com", src)
ProvB(src) == ProviderConfig("b", "https://gitlab.com", src)
ProvBad(src) == ProviderConfig("b", "https://unknown.example", src)

\* OPKSSH_PROVIDERS: unset, not parsable, or a list of providers
EnvProviders(state, list) == [state |-> state, list |-> list]
EnvProviderLists ==
    {EnvProviders("unset", <<>>), EnvProviders("malformed", <<>>),
     EnvProviders("set", <<ProvA("env")>>), EnvProviders("set", <<ProvB("env")>>),
     EnvProviders("set", <<ProvA("env"), ProvB("env")>>)}

CfgProviderLists ==
    {<<>>, <<ProvA("cfg")>>, <<ProvB("cfg")>>, <<ProvA("cfg"), ProvB("cfg")>>,
     <<ProvA("cfg"), ProvA("cfg")>>, <<ProvA("cfg"), ProvBad("cfg")>>}

ProviderInputs ==
    [providerArg : ProviderArgs, aliasArg : Aliases, envDefault : Aliases,
     envProviders : EnvProviderLists, cfgDefault : Aliases, cfgProviders : CfgProviderLists]

InitProvider ==
    /\ IdleWriters
    /\ IdleExpiry
    /\ IdleAdd
    /\ IdleServerConfig
    /\ IdleRun
    /\ IdleVerify
    /\ IdleKeys
    /\ IdleRefresh
    /\ p_pc = "start"
    /\ p_in \in ProviderInputs
    /\ p_res = ResErr(NoVal)

P_Determine ==
    /\ UNCHANGED notP
    /\ p_pc = "start"
    /\ p_res' = determineProvider(p_in)
    /\ p_pc' = "done"
    /\ UNCHANGED p_in

NextProvider == P_Determine

SpecProvider == InitProvider /\ [][NextProvider]_vars

(***************************************************************************)
(* Claims about provider resolution                                        *)
(***************************************************************************)
\* the precedence level of the highest input that is set: 1 --provider,
\* 2 --provider-alias, 3 environment, 4 config default_provider, 5 none
C3_Level(in) ==
    IF in.providerArg # <<>> THEN 1
    ELSE IF in.aliasArg # "" THEN 2
    ELSE IF in.envProviders.state # "unset" \/ in.envDefault # "" THEN 3
    ELSE IF in.cfgDefault # "" THEN 4
    ELSE 5

\* the inputs with every input below level k replaced
C3_ReplaceBelow(in, k, a, e, d, c) ==
    [in EXCEPT !.aliasArg     = IF k < 2 THEN a ELSE @,
               !.envProviders = IF k < 3 THEN e ELSE @,
               !.envDefault   = IF k < 3 THEN d ELSE @,
               !.cfgDefault   = IF k < 4 THEN c ELSE @]

\* which provider (or the chooser, or an error) a result names
C3_Named(res) == [kind |-> res.kind, alias |-> res.op.alias]

\* C3 as stated: the result follows the chain --provider > --provider-alias >
\* environment (OPKSSH_PROVIDERS/OPKSSH_DEFAULT) > config default_provider, and an
\* input of a lower level never affects the result when a higher one is set.
C3_LowerNeverAffects ==
    p_pc = "done" =>
        \A a \in Aliases, e \in EnvProviderLists, d \in Aliases, c \in Aliases :
            C3_Named(determineProvider(C3_ReplaceBelow(p_in, C3_Level(p_in), a, e, d, c)))
                = C3_Named(p_res)

\* the alias the precedence --provider-alias > OPKSSH_DEFAULT > default_provider >
\* WEBCHOOSER names
C3_NamedAlias(in) ==
    LET c == <<in.aliasArg, in.envDefault, in.cfgDefault>>
        named == {i \in 1..3 : c[i] # ""} IN
    IF named = {} THEN "WEBCHOOSER"
    ELSE c[CHOOSE i \in named : \A j \in named : i <= j]

\* C3 amended: with --provider set the result rests on --provider alone; otherwise
\* the alias is the first non-empty of --provider-alias, OPKSSH_DEFAULT, config
\* default_provider, else WEBCHOOSER, a lower alias never affects the result when a
\* higher one is set, and the provider is that alias's entry in the list that comes
\* from OPKSSH_PROVIDERS when set and else from the config.
C3_AliasPrecedence ==
    p_pc = "done" =>
        IF p_in.providerArg # <<>>
        THEN /\ p_res.kind \in {"op", "err"}
             /\ p_res.kind = "op" => p_res.op.src = "arg" /\ p_res.op.issuer = p_in.providerArg[1]
             /\ \A a \in Aliases, e \in EnvProviderLists, d \in Aliases, c \in Aliases :
                    determineProvider(C3_ReplaceBelow(p_in, 1, a, e, d, c)) = p_res
        ELSE LET alias == C3_NamedAlias(p_in)
                 src == IF p_in.envProviders.state = "set" THEN "env" ELSE "cfg" IN
             /\ p_res.kind = "op" =>
                   /\ p_res.op.alias = alias
                   /\ ToUpper(alias) # "WEBCHOOSER"
                   /\ p_res.op.src = src
             /\ p_res.kind = "chooser" =>
                   /\ ToUpper(alias) = "WEBCHOOSER"
                   /\ \A i \in 1..Len(p_res.list) : p_res.list[i].src = src
             /\ \A d \in Aliases, c \in Aliases :
                    determineProvider(
                        [p_in EXCEPT !.envDefault = IF p_in.aliasArg # "" THEN d ELSE @,
                                     !.cfgDefault = IF p_in.aliasArg # "" \/ p_in.envDefault # ""
                                                    THEN c ELSE @]) = p_res

\* --provider-alias wins over OPKSSH_DEFAULT and default_provider, which name others
C3_Witness ==
    /\ p_pc = "done"
    /\ p_in.providerArg = <<>>
    /\ p_in.aliasArg = "a"
    /\ p_in.envDefault = "b"
    /\ p_in.cfgDefault = "webchooser"
    /\ p_in.envProviders.state = "set"
    /\ p_res.kind = "op"
    /\ p_res.op.alias = "a"

\* the list the run has to use: the environment's when OPKSSH_PROVIDERS yields
\* one, else the config file's
C19_ChosenList(in) ==
    IF in.envProviders.state = "set" THEN in.envProviders.list ELSE in.cfgProviders

C19_InList(alias, list) == \E i \in 1..Len(list) : list[i].alias = alias

\* C19: without --provider, determineProvider takes the provider list from the
\* environment if it yields one and otherwise from the config file, never a merge
\* of the two; it returns an error and no provider or chooser when the environment
\* provider string is malformed, when neither source has providers ("no providers
\* specified"), or when the resolved alias is not WEBCHOOSER (compared without
\* regard to case) and is absent from the chosen list, with no fallback to the
\* chooser or to the other source.
C19_OneSourceNoFallback ==
    (p_pc = "done" /\ p_in.providerArg = <<>>) =>
        LET chosen == C19_ChosenList(p_in)
            alias == C3_NamedAlias(p_in) IN
        /\ p_res.kind = "op" =>
              /\ \E i \in 1..Len(chosen) : chosen[i] = p_res.op
              /\ p_res.list = <<>>
        /\ p_res.kind = "chooser" =>
              /\ p_res.list = chosen
              /\ p_res.op = NoProvider
        /\ p_res.kind = "err" => p_res.op = NoProvider /\ p_res.list = <<>>
        /\ p_in.envProviders.state = "malformed" =>
              p_res = ResErr("error getting provider config from env")
        /\ (p_in.envProviders.state = "unset" /\ p_in.cfgProviders = <<>>) =>
              p_res = ResErr("no providers specified")
        /\ (/\ p_in.envProviders.state # "malformed"
            /\ chosen # <<>>
            /\ ToUpper(alias) # "WEBCHOOSER"
            /\ ~C19_InList(alias, chosen)) =>
              /\ p_res.kind = "err"
              /\ p_res.err = IF CreateProvidersMap(chosen).err = NoVal
                             THEN "error getting provider config for alias"
                             ELSE "error creating provider map"
        /\ (/\ p_in.envProviders.state # "malformed"
            /\ chosen # <<>>
            /\ ToUpper(alias) = "WEBCHOOSER") => p_res.kind \in {"chooser", "err"}

\* the alias is in the config file's list only, the environment has a list: an
\* error, and neither the config file's entry nor the chooser
C19_Witness ==
    /\ p_pc = "done"
    /\ p_in.providerArg = <<>>
    /\ p_in.aliasArg = "b"
    /\ p_in.envProviders = EnvProviders("set", <<ProvA("env")>>)
    /\ p_in.cfgProviders = <<ProvA("cfg"), ProvB("cfg")>>
    /\ p_res = ResErr("error getting provider config for alias")

(***************************************************************************)
(* Key files: createSSHCert, writeKeysToSSHDir, writeKeys, fileExists      *)
(***************************************************************************)
\* bound: logins and refreshes in one behaviour
MaxOps == 3

DefaultKeyFilenames == <<"id_ecdsa", "id_ed25519">>
SecPaths == {"id_ecdsa", "id_ed25519", "custom"}

\* seckeyPath + ".pub"
PubPath(seckeyPath) ==
    CASE seckeyPath = "id_ecdsa"   -> "id_ecdsa.pub"
      [] seckeyPath = "id_ed25519" -> "id_ed25519.pub"
      [] OTHER                     -> "custom.pub"

Paths == SecPaths \cup {PubPath(q) : q \in SecPaths}

\* a file: absent, present, or present and not readable by the user; its
\* content is the sequence of its space-separated fields
File(st, data) == [st |-> st, data |-> data]
AbsentFile == File("absent", <<>>)

\* the i-th ephemeral key and the i-th PK Token of a behaviour
KeyOf(i) == <<"k1", "k2", "k3", "k4", "k5">>[i]
TokOf(i) == <<"t1", "t2", "t3", "t4", "t5">>[i]

\* ssh.MarshalAuthorizedKey: type, base64 blob (here the certified key and the
\* token it embeds), newline
MarshalAuthorizedKey(key, tok) == <<CertType, key, tok, "\n">>

\* createSSHCert that keeps the newline MarshalAuthorizedKey adds
CertBytesWithNewline(key, tok) == MarshalAuthorizedKey(key, tok)

\* login.go 423-425: certBytes[:len(certBytes)-1]
CertBytes(key, tok) ==
    LET b == MarshalAuthorizedKey(key, tok) IN SubSeq(b, 1, Len(b) - 1)

\* login.go 427-431: the PEM of the ephemeral secret key
SecKeyPem(key) == <<"OPENSSH PRIVATE KEY", key>>

\* a certificate file without the marker
CertFileUnmarked(certBytes) == certBytes

\* login.go 496: certBytes = append(certBytes, []byte(" openpubkey")...)
CertFileBytes(certBytes) == certBytes \o <<" openpubkey">>

\* strings.TrimSpace on the comments of the model
TrimSpace(s) ==
    CASE s = " openpubkey" -> "openpubkey"
      [] s = " user@host"  -> "user@host"
      [] OTHER             -> s

KeyTypes == {CertType, "ssh-ed25519", "ecdsa-sha2-nistp256"}

\* ssh.ParseAuthorizedKey: the first line; type and blob, then the comment
ParseAuthorizedKey(data) ==
    LET nl == {i \in 1..Len(data) : data[i] = "\n"}
        end == IF nl = {} THEN Len(data) ELSE (CHOOSE i \in nl : \A j \in nl : i <= j) - 1
        line == SubSeq(data, 1, end) IN
    IF Len(line) < 3 \/ line[1] \notin KeyTypes THEN [err |-> "ssh: no key found", comment |-> ""]
    ELSE [err |-> NoVal, comment |-> IF Len(line) >= 4 THEN TrimSpace(line[4]) ELSE ""]

\* a fileExists that takes every Open error for absence
fileExistsOnlyIfOpens(fs, fPath) == fs[fPath].st = "ok"

\* login.go 501-504: any error of Open but ErrNotExist counts as existing
fileExists(fs, fPath) == fs[fPath].st # "absent"

\* afero.ReadFile
ReadFile(fs, fPath) ==
    IF fs[fPath].st = "ok" THEN [err |-> NoVal, data |-> fs[fPath].data]
    ELSE [err |-> "read failed", data |-> <<>>]

\* afero.WriteFile (O_WRONLY|O_CREATE|O_TRUNC, then Write): it succeeds, or the
\* open fails and the file is as before, or the write fails after the truncation
WriteOutcomes == {"ok", "openfail", "writefail"}
WriteFile(fs, fPath, data, outcome) ==
    CASE outcome = "ok"        -> [fs EXCEPT ![fPath] = File("ok", data)]
      [] outcome = "writefail" -> [fs EXCEPT ![fPath] = File("ok", <<>>)]
      [] OTHER                 -> fs

\* login.go 487-499
writeKeys(fs, seckeyPath, pubkeyPath, seckeySshPem, certBytes, o1, o2) ==
    LET fs1 == WriteFile(fs, seckeyPath, seckeySshPem, o1) IN
    IF o1 # "ok" THEN [fs |-> fs1, err |-> "write failed", path |-> seckeyPath]
    ELSE [fs |-> WriteFile(fs1, pubkeyPath, CertFileBytes(certBytes), o2),
          err |-> IF o2 # "ok" THEN "write failed" ELSE NoVal,
          path |-> seckeyPath]

\* a loop body that takes a key file without its .pub for free
KeyFileVerdictNoPubIsFree(fs, keyFilename) ==
    LET pubkeyPath == PubPath(keyFilename) IN
    IF ~fileExists(fs, keyFilename) THEN "write"
    ELSE IF ~fileExists(fs, pubkeyPath) THEN "write"
    ELSE LET sshPubkey == ReadFile(fs, pubkeyPath) IN
         IF sshPubkey.err # NoVal THEN "continue"
         ELSE LET parsed == ParseAuthorizedKey(sshPubkey.data) IN
              IF parsed.err # NoVal THEN "continue"
              ELSE IF parsed.comment = "openpubkey" THEN "write"
              ELSE "continue"

\* login.go 456-482: what the loop body decides for one of the default key files
KeyFileVerdict(fs, keyFilename) ==
    LET pubkeyPath == PubPath(keyFilename) IN
    IF ~fileExists(fs, keyFilename) THEN "write"
    ELSE IF ~fileExists(fs, pubkeyPath) THEN "continue"
    ELSE LET sshPubkey == ReadFile(fs, pubkeyPath) IN
         IF sshPubkey.err # NoVal THEN "continue"
         ELSE LET parsed == ParseAuthorizedKey(sshPubkey.data) IN
              IF parsed.err # NoVal THEN "continue"
              ELSE IF parsed.comment = "openpubkey" THEN "write"
              ELSE "continue"

\* login.go 455-484: the loop over the default key files, from the i-th on
RECURSIVE writeKeysLoop(_, _, _, _, _, _)
writeKeysLoop(fs, i, seckeySshPem, certBytes, o1, o2) ==
    IF i > Len(DefaultKeyFilenames)
    THEN [fs |-> fs, err |-> "no default ssh key file free for openpubkey", path |-> NoVal]
    ELSE LET keyFilename == DefaultKeyFilenames[i] IN
         IF KeyFileVerdict(fs, keyFilename) = "write"
         THEN writeKeys(fs, keyFilename, PubPath(keyFilename), seckeySshPem, certBytes, o1, o2)
         ELSE writeKeysLoop(fs, i + 1, seckeySshPem, certBytes, o1, o2)

\* login.go 436-485; homeOk: os.UserHomeDir, mkdirOk: Fs.MkdirAll
writeKeysToSSHDir(fs, seckeySshPem, certBytes, homeOk, mkdirOk, o1, o2) ==
    IF ~homeOk THEN [fs |-> fs, err |-> "$HOME is not defined", path |-> NoVal]
    ELSE IF ~mkdirOk THEN [fs |-> fs, err |-> "mkdir failed", path |-> NoVal]
    ELSE writeKeysLoop(fs, 1, seckeySshPem, certBytes, o1, o2)

\* login.go 286-297 and 370-381: to --output-key when given, else under ~/.ssh
WriteLoginKeys(fs, seckeyPath, seckeySshPem, certBytes, homeOk, mkdirOk, o1, o2) ==
    IF seckeyPath # ""
    THEN writeKeys(fs, seckeyPath, PubPath(seckeyPath), seckeySshPem, certBytes, o1, o2)
    ELSE writeKeysToSSHDir(fs, seckeySshPem, certBytes, homeOk, mkdirOk, o1, o2)

\* what ~/.ssh may hold before opkssh runs
ForeignSecFiles == {AbsentFile, File("ok", <<"OPENSSH PRIVATE KEY", "foreign">>), File("noperm", <<>>)}
ForeignPubFiles ==
    {AbsentFile, File("noperm", <<>>), File("ok", <<"garbage">>),
     File("ok", <<"ssh-ed25519", "foreign", "-", " user@host">>),
     File("ok", <<CertType, "k0", "t0", " openpubkey">>)}

InitialFs ==
    {fs \in [Paths -> ForeignSecFiles \cup ForeignPubFiles] :
        /\ \A q \in {"id_ecdsa", "id_ed25519"} :
              fs[q] \in ForeignSecFiles /\ fs[PubPath(q)] \in ForeignPubFiles
        /\ fs["custom"] = AbsentFile /\ fs["custom.pub"] = AbsentFile}

\* the default path whose pair a run left complete and marked, if it changed ~/.ssh
AnchorAfter(anchor, before, r, isDefault) ==
    IF r.fs = before THEN anchor
    ELSE IF isDefault /\ r.err = NoVal THEN r.path
    ELSE IF \A q \in {"id_ecdsa", "id_ed25519"} :
               r.fs[q] = before[q] /\ r.fs[PubPath(q)] = before[PubPath(q)]
    THEN anchor
    ELSE NoVal

InitKeys ==
    /\ IdleWriters
    /\ IdleExpiry
    /\ IdleAdd
    /\ IdleServerConfig
    /\ IdleRun
    /\ IdleVerify
    /\ IdleProvider
    /\ IdleRefresh
    /\ k_fs \in InitialFs
    /\ k_n = 0
    /\ k_signer = NoVal
    /\ k_anchor = NoVal
    /\ k_first = NoVal
    /\ k_clean = TRUE
    /\ k_last = [op |-> "none", err |-> NoVal, path |-> NoVal, anchor |-> NoVal,
                 first |-> NoVal, before |-> k_fs, sec |-> <<>>, cert |-> <<>>]

\* one run of the key-writing part of login (a fresh key) or of a refresh (the
\* session's key), with seckeyPath as given by --output-key
K_Write(op, seckeyPath, key, homeOk, mkdirOk, o1, o2) ==
    LET tok == TokOf(k_n + 1)
        r == WriteLoginKeys(k_fs, seckeyPath, SecKeyPem(key), CertBytes(key, tok),
                            homeOk, mkdirOk, o1, o2) IN
    /\ k_n < MaxOps
    /\ k_n' = k_n + 1
    /\ k_fs' = r.fs
    /\ k_signer' = IF r.err = NoVal THEN key ELSE IF op = "login" THEN NoVal ELSE k_signer
    /\ k_anchor' = AnchorAfter(k_anchor, k_fs, r, seckeyPath = "")
    /\ k_first' = IF k_first = NoVal /\ seckeyPath = "" /\ r.err = NoVal THEN r.path ELSE k_first
    /\ k_clean' = (k_clean /\ r.err = NoVal)
    /\ k_last' = [op |-> op, err |-> r.err, path |-> r.path, anchor |-> k_anchor,
                  first |-> k_first, before |-> k_fs,
                  sec |-> SecKeyPem(key), cert |-> CertBytes(key, tok)]
    /\ UNCHANGED notK

\* the results of UserHomeDir, MkdirAll and the two WriteFile calls of one run:
\* all succeed, or one of them fails (what follows a failure is not reached)
IoCases ==
    {<<TRUE, TRUE, "ok", "ok">>, <<FALSE, TRUE, "ok", "ok">>, <<TRUE, FALSE, "ok", "ok">>}
    \cup {<<TRUE, TRUE, o, "ok">> : o \in WriteOutcomes}
    \cup {<<TRUE, TRUE, "ok", o>> : o \in WriteOutcomes}

\* opkssh login
K_LoginDefault ==
    \E io \in IoCases :
        K_Write("login", "", KeyOf(k_n + 1), io[1], io[2], io[3], io[4])

\* opkssh login --output-key <path>
K_LoginOutputKey ==
    \E seckeyPath \in {"id_ecdsa", "custom"}, io \in IoCases :
        /\ io[1] /\ io[2]
        /\ K_Write("login-output-key", seckeyPath, KeyOf(k_n + 1), TRUE, TRUE, io[3], io[4])

\* a refresh of a login --auto-refresh that wrote to the default location
K_RefreshDefault ==
    /\ k_signer # NoVal
    /\ k_last.op \in {"login", "refresh"}
    /\ \E io \in IoCases :
          K_Write("refresh", "", k_signer, io[1], io[2], io[3], io[4])

NextKeys ==
    \/ K_LoginDefault
    \/ K_LoginOutputKey
    \/ K_RefreshDefault

SpecKeys == InitKeys /\ [][NextKeys]_vars

(***************************************************************************)
(* Claims about the key files                                              *)
(***************************************************************************)
DefaultPaths == {"id_ecdsa", "id_ed25519"}
NoFree == "no default ssh key file free for openpubkey"

\* the public key file of q carries the comment openpubkey
Marked(fs, q) ==
    /\ fs[PubPath(q)].st = "ok"
    /\ ParseAuthorizedKey(fs[PubPath(q)].data).err = NoVal
    /\ ParseAuthorizedKey(fs[PubPath(q)].data).comment = "openpubkey"

DefaultRun == k_last.op \in {"login", "refresh"}

\* C4: a login to the default location modifies no existing file at id_ecdsa,
\* id_ecdsa.pub, id_ed25519 or id_ed25519.pub unless the public key file of that
\* path carries the comment openpubkey, and when it returns "no default ssh key file
\* free for openpubkey" all four files are unchanged.
C4_NeverOverwritesForeign ==
    DefaultRun =>
        /\ \A q \in DefaultPaths : \A f \in {q, PubPath(q)} :
              (k_last.before[f].st # "absent" /\ k_fs[f] # k_last.before[f])
                  => Marked(k_last.before, q)
        /\ k_last.err = NoFree => k_fs = k_last.before

\* a default path is eligible when its key file is absent or its pair is marked
Eligible(fs, q) == fs[q].st = "absent" \/ Marked(fs, q)

\* C5: a login to the default location writes the pair to the first of id_ecdsa,
\* id_ed25519 that is absent or marked; id_ed25519 only when id_ecdsa is present and
\* not marked; on success exactly the two files of that one path are written; and it
\* returns "no default ssh key file free" exactly when neither path is eligible.
C5_FirstEligiblePath ==
    DefaultRun =>
        LET b == k_last.before
            elig == {i \in 1..2 : Eligible(b, DefaultKeyFilenames[i])} IN
        /\ k_last.path # NoVal =>
              /\ elig # {}
              /\ k_last.path = DefaultKeyFilenames[CHOOSE i \in elig : \A j \in elig : i <= j]
        /\ k_last.path = "id_ed25519" =>
              b["id_ecdsa"].st # "absent" /\ ~Marked(b, "id_ecdsa")
        /\ k_last.err = NoVal =>
              /\ k_last.path \in DefaultPaths
              /\ k_fs[k_last.path] = File("ok", k_last.sec)
              /\ k_fs[PubPath(k_last.path)].st = "ok"
              /\ k_fs[PubPath(k_last.path)].data # b[PubPath(k_last.path)].data
              /\ \A f \in Paths \ {k_last.path, PubPath(k_last.path)} : k_fs[f] = b[f]
        /\ k_last.err = NoFree => elig = {}
        /\ elig = {} => k_last.path = NoVal /\ k_last.err # NoVal /\ k_fs = b

\* id_ecdsa is there without its .pub, so the pair goes to id_ed25519
C5_Witness ==
    /\ k_last.op = "login"
    /\ k_last.err = NoVal
    /\ k_last.path = "id_ed25519"
    /\ k_last.before["id_ecdsa"].st = "ok"
    /\ k_last.before["id_ecdsa.pub"].st = "absent"
    /\ k_fs["id_ed25519"] = File("ok", k_last.sec)

\* C6 as stated, for behaviours in which every run succeeded: after a successful
\* default-location login, any later default-location login or refresh selects the
\* path the first one wrote.
C6_AnyLaterLoginSamePath ==
    (k_clean /\ DefaultRun /\ k_last.first # NoVal) => k_last.path = k_last.first

\* C6 amended: every certificate file writeKeys writes is the certificate line
\* followed by " openpubkey" and is read back with the comment openpubkey; and a
\* default-location login or refresh that finds the default key files as the last
\* successful default-location run left them selects the path of that run.
C6_MarkedPairReselected ==
    /\ (k_last.op # "none" /\ k_last.err = NoVal) =>
          /\ k_fs[PubPath(k_last.path)] = File("ok", k_last.cert \o <<" openpubkey">>)
          /\ Marked(k_fs, k_last.path)
    /\ (DefaultRun /\ k_last.anchor # NoVal /\ k_last.path # NoVal) =>
          k_last.path = k_last.anchor
    /\ (DefaultRun /\ k_last.anchor # NoVal) => k_last.err # NoFree

\* the first login went to id_ed25519, and so do the second and a refresh after it
C6_Witness ==
    /\ k_n = 3
    /\ k_last.op = "refresh"
    /\ k_last.err = NoVal
    /\ k_last.anchor = "id_ed25519"
    /\ k_last.first = "id_ed25519"
    /\ k_last.path = "id_ed25519"
    /\ k_last.before["id_ed25519.pub"].data[4] = " openpubkey"

(***************************************************************************)
(* login --auto-refresh: LoginCmd.LoginWithRefresh                         *)
(***************************************************************************)
\* time.Minute, the clock's unit
Minute == 1
\* bounds: the clock, the lifetime of an ID token, the tokens one behaviour obtains
MaxTime == 4
MaxLife == 2
MaxTokens == 3

NoRet == [step |-> "running", err |-> NoVal]
Err(step, e) == [step |-> step, err |-> e]

\* a select that returns nil on cancellation
CtxErrNil == "nil"

\* ctx.Err() once ctx.Done() is closed
CtxErr == "context canceled"

RefreshErrors == {"PROVIDER_NET", "PROVIDER_UNKNOWN", "token rejected"}

NoPkt == [id |-> "", upk |-> "", exp |-> 0]

\* the payload of the ID token: the claims, of which exp is read
Payload(pkt) == [exp |-> pkt.exp]
RawURLEncode(x) == <<"b64", x>>
DecodeString(b) == b[2]
\* PKToken.Compact: protected header, payload, signature
Compact(pkt) == <<RawURLEncode("header"), RawURLEncode(Payload(pkt)), RawURLEncode("sig")>>
\* jws.SplitCompactString: the second part is the payload
SplitCompactPayload(com) == com[2]

\* a loop that keeps the exp it read at login
KeepExpiration(claims, pkt) == claims

\* login.go 383-399: claims is read again from the refreshed token
ReparsedExpiration(claims, pkt) == DecodeString(SplitCompactPayload(Compact(pkt))).exp

\* a login that asks for a principal
LoginPrincipalsRoot == <<"root">>

\* login.go 278-280: principals := []string{}
LoginPrincipals == <<>>

\* a loop that generates a key pair for every refresh
LoopSignerNew(signer, n) == KeyOf(n)

\* login.go 365: the loop passes loginResult.signer
LoopSigner(signer, n) == signer

\* login.go 404-434: the certificate of the token's key with the given
\* principals, signed with signer, and the PEM of the signer
createSSHCert(pkt, signer, principals) ==
    [cert |-> CertBytes(pkt.upk, pkt.id), sec |-> SecKeyPem(signer),
     principals |-> principals, signedBy |-> signer]
NoCert == [cert |-> <<>>, sec |-> <<>>, principals |-> <<>>, signedBy |-> NoVal]

\* login.go 350: the timer of the wait has fired
TimerDue(now, expiration) == now >= expiration - Minute

\* a wait whose timer is always ready
SelectTimerAlwaysReady(cancelled, due) ==
    {"timer"} \cup (IF cancelled THEN {"ctx"} ELSE {})

\* login.go 352-357: the cases of the select that are ready
SelectBranches(cancelled, due) ==
    (IF due THEN {"timer"} ELSE {}) \cup (IF cancelled THEN {"ctx"} ELSE {})

\* a loop that logs a failed Refresh and tries again
AfterRefreshErrorRetry == "retry"

\* login.go 360-362: if err != nil { return err }
AfterRefreshError == "return"

RefreshInitialFs ==
    {fs \in InitialFs :
        /\ fs["id_ed25519"] = AbsentFile /\ fs["id_ed25519.pub"] = AbsentFile
        /\ \/ fs["id_ecdsa"] = AbsentFile /\ fs["id_ecdsa.pub"] = AbsentFile
           \/ fs["id_ecdsa"].st = "ok" /\ fs["id_ecdsa.pub"].st = "ok"
              /\ fs["id_ecdsa.pub"].data[1] = "ssh-ed25519"}

InitHist ==
    [refreshCalls |-> 0, tokens |-> 0, writes |-> 0, failures |-> 0, refreshFailures |-> 0,
     sel |-> [cancelled |-> FALSE, due |-> FALSE, branch |-> "none"],
     refreshAt |-> [at |-> 0, exp |-> 0],
     snap |-> [calls |-> 0, writes |-> 0, pc |-> "none"],
     raced |-> FALSE,
     iter |-> <<>>]

InitRefresh ==
    /\ IdleWriters
    /\ IdleExpiry
    /\ IdleAdd
    /\ IdleServerConfig
    /\ IdleRun
    /\ IdleVerify
    /\ IdleProvider
    /\ IdleKeys
    /\ r_pc = "auth"
    /\ r_arg \in {"", "custom"}
    /\ r_now = 0
    /\ r_cancel = FALSE
    /\ r_fs \in RefreshInitialFs
    /\ r_signer = NoVal
    /\ r_principals = <<"unset">>
    /\ r_pkt = NoPkt
    /\ r_cert = NoCert
    /\ r_claims = 0
    /\ r_ret = NoRet
    /\ r_hist = InitHist

\* return err
R_Return(step, e) ==
    /\ r_pc' = "done"
    /\ r_ret' = Err(step, e)

R_Fail(step, e) ==
    /\ R_Return(step, e)
    /\ r_hist' = [r_hist EXCEPT !.failures = @ + 1]

\* login.go 262-276: GenKeyPair, client.New, Auth
R_Auth ==
    /\ UNCHANGED notR
    /\ r_pc = "auth"
    /\ \/ /\ R_Fail("login", "auth failed")
          /\ UNCHANGED <<r_signer, r_principals, r_pkt>>
       \/ \E d \in 1..MaxLife :
             /\ r_signer' = KeyOf(1)
             /\ UNCHANGED r_principals
             /\ r_pkt' = [id |-> TokOf(1), upk |-> KeyOf(1), exp |-> r_now + d]
             /\ r_hist' = [r_hist EXCEPT !.tokens = 1]
             /\ r_pc' = "login-cert"
             /\ UNCHANGED r_ret
    /\ UNCHANGED <<r_arg, r_now, r_cancel, r_fs, r_cert, r_claims>>

\* login.go 280-284
R_LoginCert ==
    /\ UNCHANGED notR
    /\ r_pc = "login-cert"
    /\ r_principals' = LoginPrincipals
    /\ \/ /\ R_Fail("bind", "failed to generate SSH cert")
          /\ UNCHANGED r_cert
       \/ /\ r_cert' = createSSHCert(r_pkt, r_signer, LoginPrincipals)
          /\ r_pc' = "login-write"
          /\ UNCHANGED <<r_ret, r_hist>>
    /\ UNCHANGED <<r_arg, r_now, r_cancel, r_fs, r_signer, r_pkt, r_claims>>

\* the key files are written: to --output-key or the default location
R_WriteKeys(next) ==
    \E io \in IoCases :
        LET r == WriteLoginKeys(r_fs, r_arg, r_cert.sec, r_cert.cert, io[1], io[2], io[3], io[4]) IN
        /\ r_fs' = r.fs
        /\ IF r.err # NoVal
           THEN /\ R_Return("write", "failed to write SSH keys to filesystem")
                /\ r_hist' = [r_hist EXCEPT !.failures = @ + 1, !.writes = @ + 1,
                                            !.iter = Append(@, "write")]
           ELSE /\ r_pc' = next
                /\ r_hist' = [r_hist EXCEPT !.writes = @ + 1, !.iter = Append(@, "write")]
                /\ UNCHANGED r_ret

\* login.go 286-297
R_LoginWrite ==
    /\ UNCHANGED notR
    /\ r_pc = "login-write"
    /\ R_WriteKeys("login-ident")
    /\ UNCHANGED <<r_arg, r_now, r_cancel, r_signer, r_principals, r_pkt, r_cert, r_claims>>

\* login.go 299-321: PrettyIdToken, IdentityString
R_LoginIdent ==
    /\ UNCHANGED notR
    /\ r_pc = "login-ident"
    /\ \/ R_Fail("login", "failed to parse ID Token")
       \/ r_pc' = "claims" /\ UNCHANGED <<r_ret, r_hist>>
    /\ UNCHANGED <<r_arg, r_now, r_cancel, r_fs, r_signer, r_principals, r_pkt, r_cert, r_claims>>

\* login.go 340-345: json.Unmarshal(loginResult.pkt.Payload, &claims)
R_ParseClaims ==
    /\ UNCHANGED notR
    /\ r_pc = "claims"
    /\ \/ /\ R_Fail("exp", "malformed ID token payload")
          /\ UNCHANGED r_claims
       \/ /\ r_claims' = Payload(r_pkt).exp
          /\ r_pc' = "wait"
          /\ r_hist' = [r_hist EXCEPT !.iter = <<>>]
          /\ UNCHANGED r_ret
    /\ UNCHANGED <<r_arg, r_now, r_cancel, r_fs, r_signer, r_principals, r_pkt, r_cert>>

\* login.go 350-354: case <-time.After(untilExpired)
R_WaitTimer ==
    /\ UNCHANGED notR
    /\ r_pc = "wait"
    /\ "timer" \in SelectBranches(r_cancel, TimerDue(r_now, r_claims))
    /\ r_pc' = "refresh"
    /\ r_hist' = [r_hist EXCEPT
                    !.sel = [cancelled |-> r_cancel, due |-> TimerDue(r_now, r_claims),
                             branch |-> "timer"],
                    !.raced = @ \/ r_cancel,
                    !.iter = Append(@, "wait")]
    /\ UNCHANGED <<r_arg, r_now, r_cancel, r_fs, r_signer, r_principals, r_pkt, r_cert, r_claims, r_ret>>

\* login.go 355-356: case <-ctx.Done(): return ctx.Err()
R_WaitCancelled ==
    /\ UNCHANGED notR
    /\ r_pc = "wait"
    /\ "ctx" \in SelectBranches(r_cancel, TimerDue(r_now, r_claims))
    /\ R_Return("wait", CtxErr)
    /\ r_hist' = [r_hist EXCEPT
                    !.sel = [cancelled |-> r_cancel, due |-> TimerDue(r_now, r_claims),
                             branch |-> "ctx"]]
    /\ UNCHANGED <<r_arg, r_now, r_cancel, r_fs, r_signer, r_principals, r_pkt, r_cert, r_claims>>

\* login.go 359-363: loginResult.client.Refresh(ctx)
R_Refresh ==
    /\ UNCHANGED notR
    /\ r_pc = "refresh"
    /\ r_hist.tokens < MaxTokens
    /\ LET called == [r_hist EXCEPT !.refreshCalls = @ + 1,
                                    !.refreshAt = [at |-> r_now, exp |-> r_pkt.exp],
                                    !.iter = Append(@, "refresh")] IN
       \/ \E e \in RefreshErrors :
             /\ r_hist' = [called EXCEPT !.failures = @ + 1, !.refreshFailures = @ + 1]
             /\ IF AfterRefreshError = "return"
                THEN R_Return("refresh", e)
                ELSE r_pc' = "wait" /\ UNCHANGED r_ret
             /\ UNCHANGED r_pkt
       \/ \E d \in 1..MaxLife :
             /\ r_pkt' = [id |-> TokOf(r_hist.tokens + 1), upk |-> r_pkt.upk, exp |-> r_now + d]
             /\ r_hist' = [called EXCEPT !.tokens = @ + 1]
             /\ r_pc' = "loop-cert"
             /\ UNCHANGED r_ret
    /\ UNCHANGED <<r_arg, r_now, r_cancel, r_fs, r_signer, r_principals, r_cert, r_claims>>

\* login.go 365-368
R_LoopCert ==
    /\ UNCHANGED notR
    /\ r_pc = "loop-cert"
    /\ \/ /\ R_Return("bind", "failed to generate SSH cert")
          /\ r_hist' = [r_hist EXCEPT !.failures = @ + 1]
          /\ UNCHANGED r_cert
       \/ /\ r_cert' = createSSHCert(r_pkt, LoopSigner(r_signer, r_hist.tokens), r_principals)
          /\ r_pc' = "loop-write"
          /\ r_hist' = [r_hist EXCEPT !.iter = Append(@, "bind")]
          /\ UNCHANGED r_ret
    /\ UNCHANGED <<r_arg, r_now, r_cancel, r_fs, r_signer, r_principals, r_pkt, r_claims>>

\* login.go 370-381
R_LoopWrite ==
    /\ UNCHANGED notR
    /\ r_pc = "loop-write"
    /\ R_WriteKeys("reparse")
    /\ UNCHANGED <<r_arg, r_now, r_cancel, r_signer, r_principals, r_pkt, r_cert, r_claims>>

\* login.go 383-399: Compact, SplitCompactString, DecodeString, json.Unmarshal
R_Reparse ==
    /\ UNCHANGED notR
    /\ r_pc = "reparse"
    /\ \/ /\ R_Fail("exp", "malformed ID token")
          /\ UNCHANGED r_claims
       \/ /\ r_claims' = ReparsedExpiration(r_claims, r_pkt)
          /\ r_pc' = "wait"
          /\ r_hist' = [r_hist EXCEPT !.iter = <<>>]
          /\ UNCHANGED r_ret
    /\ UNCHANGED <<r_arg, r_now, r_cancel, r_fs, r_signer, r_principals, r_pkt, r_cert>>

\* part_002 45-51: SIGINT or SIGTERM arrives and the handler calls cancel()
R_Cancel ==
    /\ UNCHANGED notR
    /\ r_pc # "done"
    /\ ~r_cancel
    /\ r_cancel' = TRUE
    /\ r_hist' = [r_hist EXCEPT !.snap = [calls |-> r_hist.refreshCalls,
                                          writes |-> r_hist.writes, pc |-> r_pc]]
    /\ UNCHANGED <<r_pc, r_arg, r_now, r_fs, r_signer, r_principals, r_pkt, r_cert, r_claims, r_ret>>

\* a minute passes
R_Tick ==
    /\ UNCHANGED notR
    /\ r_pc # "done"
    /\ r_now < MaxTime
    /\ r_now' = r_now + 1
    /\ UNCHANGED <<r_pc, r_arg, r_cancel, r_fs, r_signer, r_principals, r_pkt, r_cert, r_claims, r_ret, r_hist>>

NextRefresh ==
    \/ R_Auth
    \/ R_LoginCert
    \/ R_LoginWrite
    \/ R_LoginIdent
    \/ R_ParseClaims
    \/ R_WaitTimer
    \/ R_WaitCancelled
    \/ R_Refresh
    \/ R_LoopCert
    \/ R_LoopWrite
    \/ R_Reparse
    \/ R_Cancel
    \/ R_Tick

SpecRefresh == InitRefresh /\ [][NextRefresh]_vars

(***************************************************************************)
(* Properties of LoginWithRefresh                                          *)
(***************************************************************************)
LoopPcs == {"wait", "refresh", "loop-cert", "loop-write", "reparse"}

\* the events of the iteration under way, by the position of the loop
IterationAt(pc) ==
    CASE pc = "wait"       -> <<>>
      [] pc = "refresh"    -> <<"wait">>
      [] pc = "loop-cert"  -> <<"wait", "refresh">>
      [] pc = "loop-write" -> <<"wait", "refresh", "bind">>
      [] pc = "reparse"    -> <<"wait", "refresh", "bind", "write">>

\* the key files hold the secret key and the marked certificate of pkt
FilesHold(fs, pkt, signer) ==
    \E q \in SecPaths :
        /\ fs[q] = File("ok", SecKeyPem(signer))
        /\ fs[PubPath(q)] = File("ok", CertFileBytes(CertBytes(pkt.upk, pkt.id)))

FatalRefreshErrors == {"PROVIDER_UNKNOWN", "token rejected"}

\* C9 as stated: only PROVIDER_UNKNOWN or a token rejection ends the loop
\* with the error of a Refresh call.
C9_OnlyFatalEndsLoop ==
    (r_pc = "done" /\ r_ret.step = "refresh") => r_ret.err \in FatalRefreshErrors

\* C9: the first failed Refresh call ends the loop: LoginWithRefresh returns
\* the error of that call, whatever its kind, and calls Refresh no more.
C9_RefreshFailureReturns ==
    r_hist.refreshFailures > 0 =>
        /\ r_hist.refreshFailures = 1
        /\ r_pc = "done"
        /\ r_ret.step = "refresh"
        /\ r_ret.err \in RefreshErrors
        /\ r_hist.failures = 1

C9_Witness ==
    /\ r_pc = "done"
    /\ r_ret = Err("refresh", "PROVIDER_NET")
    /\ r_hist.refreshCalls = 2
    /\ r_hist.refreshFailures = 1

FailingSteps == {"login", "refresh", "bind", "write", "exp"}

\* C10: LoginWithRefresh never returns nil.  It has returned only with the
\* error of a failed step (login, Refresh, bind, write, or the decoding of
\* the token's exp that belongs to them) or, after a cancellation, with the
\* context's error; while no step has failed and the context is not
\* cancelled it has not returned.
C10_NeverReturnsNil ==
    /\ r_pc = "done" =>
          /\ r_ret # NoRet
          /\ r_ret.err # "nil"
          /\ r_ret.err # NoVal
          /\ \/ r_ret.step = "wait" /\ r_ret.err = CtxErr /\ r_cancel
             \/ r_ret.step \in FailingSteps /\ r_hist.failures = 1
    /\ r_pc # "done" => (r_ret = NoRet /\ r_hist.failures = 0)
    /\ (r_hist.failures = 0 /\ ~r_cancel) => r_pc # "done"

C10_Witness ==
    /\ r_pc = "wait"
    /\ ~r_cancel
    /\ r_hist.failures = 0
    /\ r_hist.tokens = MaxTokens
    /\ r_ret = NoRet

(***************************************************************************)
(* opkssh login: LoginCmd.Run                                              *)
(***************************************************************************)
\* bound: the key-file writes of one run
MaxRunWrites == 2

\* a client config: whether the bytes are YAML, default_provider, providers
Cfg(parses, default, providers) ==
    [parses |-> parses, default_provider |-> default, providers |-> providers]
EmptyCfg == Cfg(TRUE, "", <<>>)

\* default-client-config.yml, embedded in the binary
DefaultClientConfig == Cfg(TRUE, "webchooser", <<ProvA("cfg"), ProvB("cfg")>>)

\* the file at the config path.  st is "absent", "ok", "noperm" (Stat
\* succeeds, no open does) or "nostat" (a directory of the path cannot be
\* searched: Stat fails with an error other than not-exist, and so does
\* every open)
CfgFile(st, data) == [st |-> st, data |-> data]
AbsentCfgFile == CfgFile("absent", EmptyCfg)

\* Fs.Stat(configPath) returns err == nil
StatOk(f) == f.st \in {"ok", "noperm"}

\* client_config.go 38-45
NewClientConfig(c) ==
    IF c.parses THEN [err |-> NoVal, config |-> c]
    ELSE [err |-> "yaml: unmarshal error", config |-> EmptyCfg]

\* client_config.go 59-83, with the config path Run has filled in
GetClientConfigFromFile(f) ==
    IF f.st # "ok" THEN [err |-> "failed to read config file", config |-> EmptyCfg]
    ELSE LET c == NewClientConfig(f.data) IN
         IF c.err # NoVal THEN [err |-> "failed to parse config file", config |-> EmptyCfg]
         ELSE c

\* afero.WriteFile on the config path
WriteCfgFile(f, data, outcome) ==
    IF f.st \in {"nostat", "noperm"} \/ outcome = "openfail" THEN f
    ELSE IF outcome = "writefail" THEN CfgFile("ok", EmptyCfg)
    ELSE CfgFile("ok", data)
WriteCfgFails(f, outcome) == f.st \in {"nostat", "noperm"} \/ outcome # "ok"

\* a CreateDefaultClientConfig without the Stat of lines 95-97
CreateDefaultClientConfigNoStat(f, mkdirOk, outcome) ==
    IF ~mkdirOk THEN [err |-> "failed to create config directory", file |-> f]
    ELSE [err |-> IF outcome # "ok" THEN "failed to write default config file" ELSE NoVal,
          file |-> IF outcome = "openfail" THEN f
                   ELSE IF outcome = "writefail" THEN CfgFile("ok", EmptyCfg)
                   ELSE CfgFile("ok", DefaultClientConfig)]

\* client_config.go 85-112, with the config path Run has filled in
CreateDefaultClientConfig(f, mkdirOk, outcome) ==
    IF StatOk(f)
    THEN [err |-> "attempting to create config file but config file already exists", file |-> f]
    ELSE IF ~mkdirOk THEN [err |-> "failed to create config directory", file |-> f]
    ELSE [err |-> IF WriteCfgFails(f, outcome) THEN "failed to write default config file"
                  ELSE NoVal,
          file |-> WriteCfgFile(f, DefaultClientConfig, outcome)]

\* a Run that goes on to log in after it has created the default config
AfterCreateDefaultContinue == "continue"

\* login.go 131-132: return config.CreateDefaultClientConfig(...)
AfterCreateDefault == "return"

\* a provider as Run holds it: the provider and whether its type has Refresh
RunProvider(op, refreshable) == [op |-> op, refreshable |-> refreshable]
NoRunProvider == RunProvider(NoProvider, FALSE)
MockProvider(kind) ==
    RunProvider(ProviderConfig("mock", "https://mock.example", "override"), kind = "refreshable")

\* a type assertion that every provider passes
SupportsRefreshAlways(provider) == TRUE

\* login.go 163: provider.(providers.RefreshableOpenIdProvider)
SupportsRefresh(provider) == provider.refreshable

NoAutoRefresh == "supplied OpenID Provider does not support auto-refresh and auto-refresh argument set to true"

RunCfgFiles ==
    {AbsentCfgFile, CfgFile("nostat", EmptyCfg), CfgFile("noperm", EmptyCfg),
     CfgFile("ok", Cfg(FALSE, "", <<>>)), CfgFile("ok", EmptyCfg),
     CfgFile("ok", Cfg(TRUE, "a", <<ProvA("cfg")>>)),
     CfgFile("ok", Cfg(TRUE, "", <<ProvA("cfg"), ProvB("cfg")>>)),
     CfgFile("ok", Cfg(TRUE, "c", <<ProvA("cfg")>>))}

RunInputs ==
    {in \in [logDirArg : {"", "dir"}, logOpenOk : BOOLEAN,
             configPathArg : {"", "cfg"}, homeOk : BOOLEAN,
             createConfigArg : BOOLEAN, autoRefreshArg : BOOLEAN,
             overrideProvider : {"none", "refreshable", "plain"}, opsRefresh : BOOLEAN,
             providerArg : {<<>>, <<"https://accounts.google.com", "cid">>,
                            <<"https://unknown.example", "cid">>},
             providerAliasArg : {"", "a", "b"},
             envProviders : {EnvProviders("unset", <<>>), EnvProviders("set", <<ProvB("env")>>)},
             cfgFile : RunCfgFiles] :
        /\ in.logDirArg = "" => in.logOpenOk
        /\ in.configPathArg # "" => in.homeOk
        /\ in.overrideProvider # "none" => in.opsRefresh}

\* what determineProvider reads, once l.config is set
RunProviderInput(in, config) ==
    [providerArg |-> in.providerArg, aliasArg |-> in.providerAliasArg, envDefault |-> "",
     envProviders |-> in.envProviders, cfgDefault |-> config.default_provider,
     cfgProviders |-> config.providers]

InitRun ==
    /\ IdleWriters
    /\ IdleExpiry
    /\ IdleAdd
    /\ IdleServerConfig
    /\ IdleVerify
    /\ IdleProvider
    /\ IdleKeys
    /\ IdleRefresh
    /\ u_pc = "start"
    /\ u_in \in RunInputs
    /\ u_cfgFile = u_in.cfgFile
    /\ u_config = EmptyCfg
    /\ u_res = ResErr(NoVal)
    /\ u_provider = NoRunProvider
    /\ u_log = {}
    /\ u_ret = "running"
    /\ u_hist = [authStarted |-> FALSE, keyWrites |-> 0, resolved |-> FALSE,
                 created |-> FALSE, loaded |-> FALSE]

\* return err; "nil" for return nil
U_Return(err) ==
    /\ u_pc' = "done"
    /\ u_ret' = err

\* login.go 93-105: the log goes to stdout, and to a file with --log-dir.  A
\* failed OpenFile leaves logFile nil and the deferred logFile.Close() panics.
U_OpenLog ==
    /\ UNCHANGED notU
    /\ u_pc = "start"
    /\ IF u_in.logDirArg # "" /\ ~u_in.logOpenOk
       THEN /\ u_log' = u_log \cup {"Failed to open log for writing"}
            /\ u_pc' = "panic"
       ELSE /\ u_pc' = "path"
            /\ UNCHANGED u_log
    /\ UNCHANGED <<u_in, u_cfgFile, u_config, u_res, u_provider, u_ret, u_hist>>

\* login.go 111-117
U_ConfigPath ==
    /\ UNCHANGED notU
    /\ u_pc = "path"
    /\ IF u_in.configPathArg = "" /\ ~u_in.homeOk
       THEN U_Return("failed to get user config dir")
       ELSE u_pc' = "config" /\ UNCHANGED u_ret
    /\ UNCHANGED <<u_in, u_cfgFile, u_config, u_res, u_provider, u_log, u_hist>>

\* login.go 119-140
U_Config ==
    /\ UNCHANGED notU
    /\ u_pc = "config"
    /\ IF StatOk(u_cfgFile)
       THEN LET c == GetClientConfigFromFile(u_cfgFile) IN
            /\ u_log' = IF u_in.createConfigArg
                        THEN u_log \cup {"--create-config=true but config file already exists"}
                        ELSE u_log
            /\ IF c.err # NoVal
               THEN U_Return(c.err) /\ UNCHANGED <<u_config, u_hist>>
               ELSE /\ u_config' = c.config
                    /\ u_hist' = [u_hist EXCEPT !.loaded = TRUE]
                    /\ u_pc' = "provider"
                    /\ UNCHANGED u_ret
            /\ UNCHANGED u_cfgFile
       ELSE IF u_in.createConfigArg
       THEN \E mkdirOk \in BOOLEAN, o \in WriteOutcomes :
               LET r == CreateDefaultClientConfig(u_cfgFile, mkdirOk, o) IN
               /\ u_cfgFile' = r.file
               /\ u_hist' = [u_hist EXCEPT !.created = TRUE]
               /\ u_log' = IF r.err = NoVal THEN u_log \cup {"created client config file"}
                           ELSE u_log
               /\ IF AfterCreateDefault = "return" \/ r.err # NoVal
                  THEN /\ U_Return(IF r.err = NoVal THEN "nil" ELSE r.err)
                       /\ UNCHANGED u_config
                  ELSE /\ u_config' = NewClientConfig(DefaultClientConfig).config
                       /\ u_pc' = "provider"
                       /\ UNCHANGED u_ret
       ELSE LET c == NewClientConfig(DefaultClientConfig) IN
            /\ u_log' = u_log \cup {"failed to find client config file"}
            /\ IF c.err # NoVal
               THEN U_Return("failed to parse default config file") /\ UNCHANGED u_config
               ELSE /\ u_config' = c.config
                    /\ u_pc' = "provider"
                    /\ UNCHANGED u_ret
            /\ UNCHANGED <<u_cfgFile, u_hist>>
    /\ UNCHANGED <<u_in, u_res, u_provider>>

\* login.go 142-150: overrideProvider, or determineProvider
U_DetermineProvider ==
    /\ UNCHANGED notU
    /\ u_pc = "provider"
    /\ IF u_in.overrideProvider # "none"
       THEN /\ u_provider' = MockProvider(u_in.overrideProvider)
            /\ u_pc' = "dispatch"
            /\ UNCHANGED <<u_res, u_ret>>
       ELSE LET res == determineProvider(RunProviderInput(u_in, u_config)) IN
            /\ u_res' = res
            /\ CASE res.kind = "err" -> U_Return(res.err) /\ UNCHANGED u_provider
                 [] res.kind = "chooser" -> u_pc' = "choose" /\ UNCHANGED <<u_provider, u_ret>>
                 [] OTHER -> /\ u_provider' = RunProvider(res.op, u_in.opsRefresh)
                             /\ u_pc' = "dispatch"
                             /\ UNCHANGED u_ret
    /\ UNCHANGED <<u_in, u_cfgFile, u_config, u_log, u_hist>>

\* login.go 151-155: chooser.ChooseOp(ctx)
U_ChooseOp ==
    /\ UNCHANGED notU
    /\ u_pc = "choose"
    /\ \/ U_Return("error choosing provider") /\ UNCHANGED u_provider
       \/ \E i \in 1..Len(u_res.list) :
             /\ u_provider' = RunProvider(u_res.list[i], u_in.opsRefresh)
             /\ u_pc' = "dispatch"
             /\ UNCHANGED u_ret
    /\ UNCHANGED <<u_in, u_cfgFile, u_config, u_res, u_log, u_hist>>

\* login.go 161-177: Login, or LoginWithRefresh if the provider can refresh
U_Dispatch ==
    /\ UNCHANGED notU
    /\ u_pc = "dispatch"
    /\ u_hist' = [u_hist EXCEPT !.resolved = TRUE]
    /\ IF u_in.autoRefreshArg /\ ~SupportsRefresh(u_provider)
       THEN U_Return(NoAutoRefresh)
       ELSE u_pc' = "auth" /\ UNCHANGED u_ret
    /\ UNCHANGED <<u_in, u_cfgFile, u_config, u_res, u_provider, u_log>>

\* login.go 262-276: the provider authenticates the user
U_Auth ==
    /\ UNCHANGED notU
    /\ u_pc = "auth"
    /\ u_hist' = [u_hist EXCEPT !.authStarted = TRUE]
    /\ \/ U_Return("error logging in")
       \/ u_pc' = "write" /\ UNCHANGED u_ret
    /\ UNCHANGED <<u_in, u_cfgFile, u_config, u_res, u_provider, u_log>>

\* login.go 280-297: the certificate is bound and the key files are written
U_WriteKeys ==
    /\ UNCHANGED notU
    /\ u_pc = "write"
    /\ u_hist' = [u_hist EXCEPT !.keyWrites = @ + 1]
    /\ \/ U_Return("error logging in")
       \/ IF u_in.autoRefreshArg
          THEN u_pc' = "refreshing" /\ UNCHANGED u_ret
          ELSE U_Return("nil")
    /\ UNCHANGED <<u_in, u_cfgFile, u_config, u_res, u_provider, u_log>>

\* login.go 347-400: the refresh loop rewrites the keys until it returns an error
U_RefreshLoop ==
    /\ UNCHANGED notU
    /\ u_pc = "refreshing"
    /\ \/ U_Return("error logging in") /\ UNCHANGED u_hist
       \/ /\ u_hist.keyWrites < MaxRunWrites
          /\ u_hist' = [u_hist EXCEPT !.keyWrites = @ + 1]
          /\ UNCHANGED <<u_pc, u_ret>>
    /\ UNCHANGED <<u_in, u_cfgFile, u_config, u_res, u_provider, u_log>>

NextRun ==
    \/ U_OpenLog
    \/ U_ConfigPath
    \/ U_Config
    \/ U_DetermineProvider
    \/ U_ChooseOp
    \/ U_Dispatch
    \/ U_Auth
    \/ U_WriteKeys
    \/ U_RefreshLoop

SpecRun == InitRun /\ [][NextRun]_vars

(***************************************************************************)
(* Properties of LoginCmd.Run                                              *)
(***************************************************************************)
AlreadyExists == "attempting to create config file but config file already exists"
DefaultCfgFile == CfgFile("ok", DefaultClientConfig)
BeforeProviderPcs == {"start", "path", "config", "panic"}
ProviderStepRan == u_res # ResErr(NoVal) \/ u_provider # NoRunProvider

\* C11: with --auto-refresh and a resolved provider that cannot refresh, Run
\* has returned the "does not support auto-refresh" error, no provider
\* authentication has been started and no key file has been written.
C11_NoRefreshCapabilityNoLogin ==
    /\ (u_in.autoRefreshArg /\ u_hist.resolved /\ ~u_provider.refreshable) =>
          /\ u_pc = "done"
          /\ u_ret = NoAutoRefresh
          /\ ~u_hist.authStarted
          /\ u_hist.keyWrites = 0
    /\ (u_in.autoRefreshArg /\ u_hist.authStarted) => u_provider.refreshable
    /\ u_ret = NoAutoRefresh => (u_in.autoRefreshArg /\ ~u_provider.refreshable)

C11_Witness ==
    /\ u_pc = "done"
    /\ u_ret = NoAutoRefresh
    /\ u_in.autoRefreshArg
    /\ u_hist.resolved
    /\ u_in.overrideProvider = "none"
    /\ u_res.kind = "chooser"
    /\ u_provider.op = ProvB("cfg")

\* C16 as stated: a run with --create-config that created the default
\* config has gone on to resolve the provider before it ended.
C16_CreateThenLogin ==
    (u_pc = "done" /\ u_in.createConfigArg /\ u_in.cfgFile.st = "absent"
       /\ u_cfgFile = DefaultCfgFile) => ProviderStepRan

\* C16: with --create-config and no config file at the config path, Run
\* calls CreateDefaultClientConfig and returns its result at once: nil when
\* the default config was written, its error otherwise; the run resolves no
\* provider, starts no authentication and writes no key file.
C16_CreateConfigReturns ==
    /\ u_hist.created =>
          /\ u_in.createConfigArg
          /\ ~StatOk(u_in.cfgFile)
          /\ u_pc = "done"
          /\ ~ProviderStepRan
          /\ ~u_hist.resolved
          /\ ~u_hist.authStarted
          /\ u_hist.keyWrites = 0
          /\ u_ret = "nil" <=> (u_in.cfgFile.st = "absent" /\ u_cfgFile = DefaultCfgFile)
          /\ u_ret = "nil" <=> "created client config file" \in u_log
    /\ (u_in.createConfigArg /\ ~StatOk(u_in.cfgFile)) =>
          /\ u_pc \in BeforeProviderPcs \cup {"done"}
          /\ (u_pc = "done" /\ u_ret # "failed to get user config dir") => u_hist.created

C16_Witness ==
    /\ u_pc = "done"
    /\ u_hist.created
    /\ u_ret = "nil"
    /\ u_in.cfgFile.st = "absent"
    /\ u_cfgFile = DefaultCfgFile
    /\ ~u_hist.authStarted

\* C18: a config file that exists is never modified.  CreateDefaultClientConfig
\* on a path where Stat finds a file returns the "already exists" error and
\* leaves the file as it is; Run leaves every file it found as it is, and
\* with --create-config on an existing config it logs that the file exists,
\* does not call CreateDefaultClientConfig, loads the file and goes on; the
\* file changes only in a run with --create-config that found none.
C18_ExistingConfigUnchanged ==
    /\ \A f \in RunCfgFiles, mkdirOk \in BOOLEAN, o \in WriteOutcomes :
          StatOk(f) => CreateDefaultClientConfig(f, mkdirOk, o) = [err |-> AlreadyExists, file |-> f]
    /\ u_in.cfgFile.st # "absent" => u_cfgFile = u_in.cfgFile
    /\ u_cfgFile # u_in.cfgFile =>
          (u_in.createConfigArg /\ u_in.cfgFile.st = "absent" /\ u_hist.created)
    /\ (u_in.createConfigArg /\ StatOk(u_in.cfgFile) /\ u_pc \notin BeforeProviderPcs
          /\ u_ret # "failed to get user config dir") =>
          /\ "--create-config=true but config file already exists" \in u_log
          /\ ~u_hist.created
          /\ \/ u_hist.loaded /\ u_config = u_in.cfgFile.data
             \/ u_pc = "done" /\ u_ret \in {"failed to read config file", "failed to parse config file"}

C18_Witness ==
    /\ u_pc = "done"
    /\ u_ret = "nil"
    /\ u_in.createConfigArg
    /\ u_in.cfgFile = CfgFile("ok", Cfg(TRUE, "a", <<ProvA("cfg")>>))
    /\ u_cfgFile = u_in.cfgFile
    /\ u_hist.loaded
    /\ u_hist.keyWrites = 1
    /\ "--create-config=true but config file already exists" \in u_log

(***************************************************************************)
(* Server config: VerifyCmd.SetEnvVarInConfig                              *)
(* The call as the specification and TestEnvFromConfig describe it.        *)
(***************************************************************************)
\* the mode a trusted file must have (octal, written as the digits read)
RequiredMode == 640
RequiredOwner == "root"
RequiredGroup == "opksshuser"

EnvNames == {"OPKSSH_TEST_EXAMPLE_VAR1", "OPKSSH_TEST_EXAMPLE_VAR2"}
EnvValues == {"ABC", "DEF"}

\* the parsed server config: env_vars maps a name to its value, NoVal if it has no entry
ServerConfig(parses, env_vars) == [parses |-> parses, env_vars |-> env_vars]
ServerConfigs ==
    {ServerConfig(FALSE, [n \in EnvNames |-> NoVal])}
    \cup {ServerConfig(TRUE, ev) : ev \in [EnvNames -> EnvValues \cup {NoVal}]}

ErrNotExist == "file does not exist"
ErrStat == "failed to run stat"
ErrOwner == "expected owner (root)"
ErrGroup == "expected group (opksshuser)"
ErrPerms == "expected one of the following permissions [640]"
ErrParse == "failed to parse config file"

\* a permission check that looks at the owner only
CheckPermOwnerOnly(f, host) ==
    IF ~f.exists THEN ErrNotExist
    ELSE IF ~host.statCmdOk THEN ErrStat
    ELSE IF f.owner # RequiredOwner THEN ErrOwner
    ELSE NoVal

\* files.PermsChecker.CheckPerm: the file exists, its owner (and group, if
\* the caller asks for one) and its mode are the required ones
CheckPerm(f, host) ==
    IF ~f.exists THEN ErrNotExist
    ELSE IF ~host.statCmdOk THEN ErrStat
    ELSE IF f.owner # RequiredOwner THEN ErrOwner
    ELSE IF host.checksGroup /\ f.group # RequiredGroup THEN ErrGroup
    ELSE IF f.mode # RequiredMode THEN ErrPerms
    ELSE NoVal

\* an export that leaves a variable that is already set as it is
SetEnvVarsKeepExisting(config, env) ==
    [n \in EnvNames |-> IF env[n] # NoVal THEN env[n]
                        ELSE IF config.env_vars[n] # NoVal THEN config.env_vars[n]
                        ELSE env[n]]

\* ServerConfig.SetEnvVars: os.Setenv for every entry of env_vars
SetEnvVars(config, env) ==
    [n \in EnvNames |-> IF config.env_vars[n] # NoVal THEN config.env_vars[n] ELSE env[n]]

SetEnvVarInConfig(f, host, env) ==
    LET perm == CheckPerm(f, host) IN
    IF perm # NoVal THEN [err |-> perm, env |-> env]
    ELSE IF ~f.content.parses THEN [err |-> ErrParse, env |-> env]
    ELSE [err |-> NoVal, env |-> SetEnvVars(f.content, env)]

ServerConfigFiles ==
    [exists : BOOLEAN, mode : {640, 677, 644}, owner : {"root", "opksshuser"},
     group : {"opksshuser", "root"}, content : ServerConfigs]

ServerConfigInputs ==
    [file : ServerConfigFiles,
     host : [statCmdOk : BOOLEAN, checksGroup : BOOLEAN],
     env : [EnvNames -> {NoVal, "OLD"}]]

InitServerConfig ==
    /\ IdleWriters
    /\ IdleExpiry
    /\ IdleAdd
    /\ IdleVerify
    /\ IdleProvider
    /\ IdleKeys
    /\ IdleRefresh
    /\ IdleRun
    /\ s_pc = "start"
    /\ s_in \in ServerConfigInputs
    /\ s_env = s_in.env
    /\ s_ret = NoVal

S_SetEnvVarInConfig ==
    /\ UNCHANGED notS
    /\ s_pc = "start"
    /\ LET r == SetEnvVarInConfig(s_in.file, s_in.host, s_env) IN
       /\ s_env' = r.env
       /\ s_ret' = r.err
    /\ s_pc' = "done"
    /\ UNCHANGED s_in

NextServerConfig == S_SetEnvVarInConfig

SpecServerConfig == InitServerConfig /\ [][NextServerConfig]_vars

\* the file is as the specification requires a trusted file to be
TrustedPerms(f) ==
    f.exists /\ f.owner = RequiredOwner /\ f.group = RequiredGroup /\ f.mode = RequiredMode

\* C12: a server config whose mode is not 640 or whose owner is not root is
\* rejected whatever it contains: SetEnvVarInConfig returns an error and
\* exports nothing, also when the YAML is valid.
C12_BadPermsRejected ==
    (s_pc = "done" /\ s_in.file.exists
       /\ (s_in.file.mode # RequiredMode \/ s_in.file.owner # RequiredOwner)) =>
        /\ s_ret # NoVal
        /\ s_ret # ErrParse
        /\ s_env = s_in.env

C12_Witness ==
    /\ s_pc = "done"
    /\ s_in.file.exists
    /\ s_in.file.mode = 677
    /\ s_in.file.owner = "root"
    /\ s_in.file.group = "opksshuser"
    /\ s_in.file.content.parses
    /\ s_in.file.content.env_vars["OPKSSH_TEST_EXAMPLE_VAR1"] = "ABC"
    /\ s_in.host.statCmdOk
    /\ s_ret = ErrPerms
    /\ s_env = s_in.env

\* C13: on a server config that exists with owner root:opksshuser and mode
\* 640 and that parses, SetEnvVarInConfig returns no error and every entry
\* of env_vars is in the environment with its configured value; a missing
\* file gives "file does not exist", and a file with the right owner and
\* mode that does not parse gives "failed to parse config file"; a call
\* that returns an error exports nothing.
C13_ExportsEnvVars ==
    s_pc = "done" =>
        /\ (TrustedPerms(s_in.file) /\ s_in.host.statCmdOk /\ s_in.file.content.parses) =>
              /\ s_ret = NoVal
              /\ \A n \in EnvNames :
                    s_env[n] = IF s_in.file.content.env_vars[n] # NoVal
                               THEN s_in.file.content.env_vars[n]
                               ELSE s_in.env[n]
        /\ ~s_in.file.exists => s_ret = ErrNotExist
        /\ (TrustedPerms(s_in.file) /\ s_in.host.statCmdOk /\ ~s_in.file.content.parses) =>
              s_ret = ErrParse
        /\ s_ret # NoVal => s_env = s_in.env

C13_Witness ==
    /\ s_pc = "done"
    /\ TrustedPerms(s_in.file)
    /\ s_ret = NoVal
    /\ s_in.env["OPKSSH_TEST_EXAMPLE_VAR1"] = "OLD"
    /\ s_env["OPKSSH_TEST_EXAMPLE_VAR1"] = "ABC"
    /\ s_env["OPKSSH_TEST_EXAMPLE_VAR2"] = "DEF"

(***************************************************************************)
(* opkssh add: run(), case "add", and AddCmd.Add                           *)
(* run() is part_002; AddCmd.Add and the policy loader are modelled as the *)
(* specification describes them (4.6 Add, Atomicity).                      *)
(***************************************************************************)
\* bound: the add processes that run at the same time
NumProcs == 2
Procs == 1..NumProcs

\* part_002 32: the one issuer of the build
DefaultIssuer == "https://accounts.google.com"

\* a row of the policy file
Row(principal, identity, iss) == <<principal, identity, iss>>

\* os.Args[2:] of an invocation
AddArgs ==
    {<<"alice@example.com", "test">>, <<"bob@example.com", "test">>,
     <<"test", "alice@example.com", "http://oidc.local:9998/">>, <<"alice@example.com">>}

\* part_002 132: len(os.Args) != 4
AddArgsOk(args) == Len(args) = 2

\* part_002 136-143: inputEmail := os.Args[2], inputPrincipal := os.Args[3]
RowOfArgs(args) == Row(args[2], args[1], DefaultIssuer)

\* an add that takes no lock
LockAlwaysFree(lock) == TRUE

\* the advisory lock on the policy file is free
LockFree(lock) == lock = 0

\* Dedup: an identical row is already in the file
HasRow(rows, row) == \E i \in 1..Len(rows) : rows[i] = row

NoLocal == [rows |-> <<>>, dup |-> FALSE, tmp |-> <<>>, after |-> <<>>]
Running == [code |-> -1, stdout |-> <<>>]
AddUsage == "Invalid number of arguments for verify"

InitialPolicyFiles == {<<>>, <<Row("test", "alice@example.com", DefaultIssuer)>>}

InitAdd ==
    /\ IdleWriters
    /\ IdleExpiry
    /\ IdleVerify
    /\ IdleProvider
    /\ IdleKeys
    /\ IdleRefresh
    /\ IdleRun
    /\ IdleServerConfig
    /\ a_pc = [p \in Procs |-> "start"]
    /\ a_args \in [Procs -> AddArgs]
    /\ a_file \in InitialPolicyFiles
    /\ a_lock = 0
    /\ a_local = [p \in Procs |-> NoLocal]
    /\ a_exit = [p \in Procs |-> Running]

\* return code
A_Exit(p, code, out) ==
    /\ a_pc' = [a_pc EXCEPT ![p] = "done"]
    /\ a_exit' = [a_exit EXCEPT ![p] = [code |-> code, stdout |-> out]]

\* part_002 132-135
A_CheckArgs(p) ==
    /\ UNCHANGED notA
    /\ a_pc[p] = "start"
    /\ IF AddArgsOk(a_args[p])
       THEN a_pc' = [a_pc EXCEPT ![p] = "lock"] /\ UNCHANGED a_exit
       ELSE A_Exit(p, 1, <<AddUsage>>)
    /\ UNCHANGED <<a_args, a_file, a_lock, a_local>>

\* Add takes the lock on the policy file
A_Lock(p) ==
    /\ UNCHANGED notA
    /\ a_pc[p] = "lock"
    /\ LockFree(a_lock)
    /\ a_lock' = p
    /\ a_pc' = [a_pc EXCEPT ![p] = "read"]
    /\ UNCHANGED <<a_args, a_file, a_local, a_exit>>

\* Add loads the policy file; a file that cannot be loaded ends the add
A_Read(p) ==
    /\ UNCHANGED notA
    /\ a_pc[p] = "read"
    /\ \/ /\ a_local' = [a_local EXCEPT ![p].rows = a_file,
                                        ![p].dup = HasRow(a_file, RowOfArgs(a_args[p]))]
          /\ a_pc' = [a_pc EXCEPT ![p] = "update"]
       \/ /\ a_local' = [a_local EXCEPT ![p].rows = a_file, ![p].tmp = a_file]
          /\ a_pc' = [a_pc EXCEPT ![p] = "failed"]
    /\ UNCHANGED <<a_args, a_file, a_lock, a_exit>>

\* Add refuses a row that is there, or writes the rows and the new row to a
\* temporary file in the same directory
A_Update(p) ==
    /\ UNCHANGED notA
    /\ a_pc[p] = "update"
    /\ IF a_local[p].dup
       THEN /\ a_local' = [a_local EXCEPT ![p].tmp = a_local[p].rows]
            /\ a_pc' = [a_pc EXCEPT ![p] = "unlock"]
       ELSE \/ /\ a_local' = [a_local EXCEPT
                                ![p].tmp = Append(a_local[p].rows, RowOfArgs(a_args[p]))]
               /\ a_pc' = [a_pc EXCEPT ![p] = "rename"]
            \/ /\ a_local' = [a_local EXCEPT ![p].tmp = a_local[p].rows]
               /\ a_pc' = [a_pc EXCEPT ![p] = "failed"]
    /\ UNCHANGED <<a_args, a_file, a_lock, a_exit>>

\* the temporary file is renamed over the policy file
A_Rename(p) ==
    /\ UNCHANGED notA
    /\ a_pc[p] = "rename"
    /\ a_file' = a_local[p].tmp
    /\ a_pc' = [a_pc EXCEPT ![p] = "unlock"]
    /\ UNCHANGED <<a_args, a_lock, a_local, a_exit>>

\* the lock is released and Add returns; part_002 144-149
A_Unlock(p) ==
    /\ UNCHANGED notA
    /\ a_pc[p] \in {"unlock", "failed"}
    /\ a_lock' = IF a_lock = p THEN 0 ELSE a_lock
    /\ a_local' = [a_local EXCEPT ![p].after = a_file]
    /\ IF a_pc[p] = "failed" THEN A_Exit(p, 1, <<>>)
       ELSE IF a_local[p].dup THEN \E code \in {0, 1} : A_Exit(p, code, <<>>)
       ELSE A_Exit(p, 0, <<>>)
    /\ UNCHANGED <<a_args, a_file>>

NextAdd ==
    \E p \in Procs :
        \/ A_CheckArgs(p)
        \/ A_Lock(p)
        \/ A_Read(p)
        \/ A_Update(p)
        \/ A_Rename(p)
        \/ A_Unlock(p)

SpecAdd == InitAdd /\ [][NextAdd]_vars

CriticalPcs == {"read", "update", "rename", "unlock", "failed"}
Added(p) == a_pc[p] = "done" /\ a_exit[p].code = 0 /\ ~a_local[p].dup

\* C14: concurrent adds serialize and are idempotent on duplicates.  At most
\* one add is between taking and releasing the lock; the policy file never
\* holds a row twice and every row has its three columns; the row of every
\* add that succeeded is in the file; an add whose row was already there
\* leaves the file as it found it.
C14_AddsSerialize ==
    /\ \A p, q \in Procs : (a_pc[p] \in CriticalPcs /\ a_pc[q] \in CriticalPcs) => p = q
    /\ \A i, j \in 1..Len(a_file) : a_file[i] = a_file[j] => i = j
    /\ \A i \in 1..Len(a_file) : Len(a_file[i]) = 3 /\ \A k \in 1..3 : a_file[i][k] # ""
    /\ \A p \in Procs : Added(p) => HasRow(a_file, RowOfArgs(a_args[p]))
    /\ \A p \in Procs :
          (a_pc[p] = "done" /\ a_local[p].dup) => a_local[p].after = a_local[p].rows
    /\ \A p \in Procs :
          (a_pc[p] = "done" /\ ~AddArgsOk(a_args[p])) =>
              a_exit[p] = [code |-> 1, stdout |-> <<AddUsage>>]

C14_Witness ==
    /\ \A p \in Procs : a_pc[p] = "done" /\ a_args[p] = <<"bob@example.com", "test">>
    /\ \E p \in Procs : Added(p)
    /\ \E p \in Procs : a_local[p].dup
    /\ Len(a_file) = 2
    /\ HasRow(a_file, Row("test", "bob@example.com", DefaultIssuer))

(***************************************************************************)
(* Expiration policy: the verification of one PK Token under the policy    *)
(* of its provider                                                         *)
(***************************************************************************)
ExpirationPolicies == {"oidc", "oidc_refreshed", "never_expire", ""} \cup MaxAgePolicies

ExpiryPkts ==
    {[FreshPkt("k1", t) EXCEPT !.refresh = r] :
        t \in 0..1,
        r \in {NoRefresh} \cup {Refresh(TRUE, v, x) : v \in BOOLEAN, x \in 1..(MaxNow + 1)}}
    \cup {Tamper(FreshPkt("k1", 0), "opSig")}

InitExpiry ==
    /\ IdleWriters
    /\ IdleVerify
    /\ IdleProvider
    /\ IdleKeys
    /\ IdleRefresh
    /\ IdleRun
    /\ IdleServerConfig
    /\ IdleAdd
    /\ e_pc = "start"
    /\ e_in \in [policy : ExpirationPolicies, pkt : ExpiryPkts, now : 0..MaxNow]
    /\ e_err = NoVal

\* the verifier checks the token under the provider's policy
E_Verify ==
    /\ UNCHANGED notE
    /\ e_pc = "start"
    /\ e_err' = VerifyPkt(e_in.pkt, e_in.policy, e_in.now)
    /\ e_pc' = "done"
    /\ UNCHANGED e_in

NextExpiry == E_Verify

SpecExpiry == InitExpiry /\ [][NextExpiry]_vars

\* C15: a token that passes the other checks is accepted exactly when its
\* provider's policy says it is fresh: oidc iff now < exp; oidc_refreshed iff
\* a valid refresh signature is present and now < refresh.exp; max_age:<d>
\* iff now - iat < d; never_expire always; no setting as oidc.  A token
\* that is not fresh is refused with PKT_EXPIRED.
C15_FreshnessFollowsPolicy ==
    (e_pc = "done" /\ e_in.pkt.opSig = "valid") =>
        LET accepted == e_err = NoVal
            pkt == e_in.pkt
            now == e_in.now IN
        /\ e_in.policy \in {"oidc", ""} => (accepted <=> now < pkt.exp)
        /\ e_in.policy = "oidc_refreshed" =>
              (accepted <=> (pkt.refresh.present /\ pkt.refresh.valid /\ now < pkt.refresh.exp))
        /\ e_in.policy = "max_age:1" => (accepted <=> now - pkt.iat < 1)
        /\ e_in.policy = "max_age:2" => (accepted <=> now - pkt.iat < 2)
        /\ e_in.policy = "never_expire" => accepted
        /\ ~accepted => e_err = "PKT_EXPIRED"

C15_Witness ==
    /\ e_pc = "done"
    /\ e_in.policy = "oidc_refreshed"
    /\ e_in.now >= e_in.pkt.exp
    /\ e_in.pkt.refresh = Refresh(TRUE, TRUE, e_in.now + 1)
    /\ e_err = NoVal

(***************************************************************************)
(* The certificates of LoginWithRefresh: principals and signer             *)
(***************************************************************************)
\* C17: the certificate bound at login and every certificate re-bound by
\* the refresh loop carry the empty principals list: no step of
\* LoginWithRefresh binds a certificate with a principal, and
\* loginResult.principals, which the loop passes on, stays empty.
C17_EmptyPrincipals ==
    /\ r_cert.principals = <<>>
    /\ r_cert # NoCert => r_principals = <<>>
    /\ r_pc \in LoopPcs => r_principals = <<>>

C17_Witness ==
    /\ r_pc = "reparse"
    /\ r_hist.refreshCalls = 2
    /\ r_pkt.id = TokOf(3)
    /\ r_cert = createSSHCert(r_pkt, r_signer, <<>>)
    /\ r_cert.principals = <<>>

ForeignSecKey == <<"OPENSSH PRIVATE KEY", "foreign">>

\* C20: the signer of a LoginWithRefresh call is the key generated at its
\* login.  Every certificate it binds, at login and on every refresh, is
\* signed with that key and certifies it, the PK Token keeps that key, the
\* PEM handed to the write is that key's, and no secret key file ever holds
\* another key of opkssh.
C20_SameSigner ==
    /\ r_signer \in {NoVal, KeyOf(1)}
    /\ r_pc \notin {"auth", "done"} => r_signer = KeyOf(1)
    /\ r_pkt # NoPkt => r_pkt.upk = r_signer
    /\ r_cert # NoCert =>
          /\ r_cert.signedBy = r_signer
          /\ r_cert.sec = SecKeyPem(r_signer)
          /\ r_cert.cert[2] = r_signer
    /\ \A q \in SecPaths :
          r_fs[q].st = "ok" => r_fs[q].data \in {ForeignSecKey, SecKeyPem(KeyOf(1)), <<>>}
    /\ r_pc = "reparse" => FilesHold(r_fs, r_pkt, KeyOf(1))

C20_Witness ==
    /\ r_pc = "reparse"
    /\ r_hist.refreshCalls = 2
    /\ r_hist.writes = 3
    /\ r_signer = KeyOf(1)
    /\ r_cert.signedBy = KeyOf(1)
    /\ r_pkt = [id |-> TokOf(3), upk |-> KeyOf(1), exp |-> r_pkt.exp]
    /\ FilesHold(r_fs, r_pkt, KeyOf(1))

(***************************************************************************)
(* Concurrent logins: the key-writing part of login, one file operation    *)
(* per step (login, writeKeysToSSHDir, writeKeys)                          *)
(***************************************************************************)
\* bound: the login processes that run at the same time
NumLogins == 2
Logins == 1..NumLogins

\* login.go 455-484: the default key file the loop calls writeKeys for, NoVal when
\* it falls through to "no default ssh key file free for openpubkey"
RECURSIVE SelectKeyFile(_, _)
SelectKeyFile(fs, i) ==
    IF i > Len(DefaultKeyFilenames) THEN NoVal
    ELSE IF KeyFileVerdict(fs, DefaultKeyFilenames[i]) = "write" THEN DefaultKeyFilenames[i]
    ELSE SelectKeyFile(fs, i + 1)

\* the key pair and certificate an earlier login left at a path
OldSecFile == File("ok", SecKeyPem("k0"))
OldCertFile == File("ok", CertFileBytes(CertBytes("k0", "t0")))

\* ~/.ssh before the logins: each default path free, or holding an earlier login's
\* pair; id_ecdsa may also hold the user's own key pair
LoginInitialFs ==
    {fs \in [Paths -> {AbsentFile, OldSecFile, OldCertFile,
                       File("ok", <<"OPENSSH PRIVATE KEY", "foreign">>),
                       File("ok", <<"ssh-ed25519", "foreign", "-", " user@host">>)}] :
        /\ <<fs["id_ecdsa"], fs["id_ecdsa.pub"]>> \in
              {<<AbsentFile, AbsentFile>>, <<OldSecFile, OldCertFile>>,
               <<File("ok", <<"OPENSSH PRIVATE KEY", "foreign">>),
                 File("ok", <<"ssh-ed25519", "foreign", "-", " user@host">>)>>}
        /\ <<fs["id_ed25519"], fs["id_ed25519.pub"]>> \in
              {<<AbsentFile, AbsentFile>>, <<OldSecFile, OldCertFile>>}
        /\ fs["custom"] = AbsentFile /\ fs["custom.pub"] = AbsentFile}

\* the paths whose file a WriteFile with this outcome has changed
Changed(written, path, outcome) ==
    IF outcome \in {"ok", "writefail"} THEN written \cup {path} ELSE written

InitWriters ==
    /\ IdleVerify
    /\ IdleProvider
    /\ IdleKeys
    /\ IdleRefresh
    /\ IdleRun
    /\ IdleServerConfig
    /\ IdleAdd
    /\ IdleExpiry
    /\ w_pc = [p \in Logins |-> "start"]
    /\ w_in \in [Logins -> {"", "custom"}]
    /\ w_path = [p \in Logins |-> NoVal]
    /\ w_fs \in LoginInitialFs
    /\ w_err = [p \in Logins |-> NoVal]
    /\ w_written = {}

\* login.go 286-297, 436-485: --output-key names the path, or UserHomeDir, MkdirAll
\* and the loop over the default key files choose it
W_Select(p) ==
    /\ w_pc[p] = "start"
    /\ IF w_in[p] # ""
       THEN /\ w_path' = [w_path EXCEPT ![p] = w_in[p]]
            /\ w_pc' = [w_pc EXCEPT ![p] = "writeSec"]
            /\ UNCHANGED w_err
       ELSE \E io \in {"ok", "nohome", "nomkdir"} :
               LET sel == SelectKeyFile(w_fs, 1) IN
               IF io # "ok"
               THEN /\ w_err' = [w_err EXCEPT ![p] = IF io = "nohome" THEN "$HOME is not defined"
                                                     ELSE "mkdir failed"]
                    /\ w_pc' = [w_pc EXCEPT ![p] = "done"]
                    /\ UNCHANGED w_path
               ELSE IF sel = NoVal
               THEN /\ w_err' = [w_err EXCEPT ![p] = "no default ssh key file free for openpubkey"]
                    /\ w_pc' = [w_pc EXCEPT ![p] = "done"]
                    /\ UNCHANGED w_path
               ELSE /\ w_path' = [w_path EXCEPT ![p] = sel]
                    /\ w_pc' = [w_pc EXCEPT ![p] = "writeSec"]
                    /\ UNCHANGED w_err
    /\ UNCHANGED <<w_in, w_fs, w_written>>
    /\ UNCHANGED notW

\* login.go 489-492: afs.WriteFile(seckeyPath, seckeySshPem, 0600)
W_WriteSec(p) ==
    /\ w_pc[p] = "writeSec"
    /\ \E o \in WriteOutcomes :
          /\ w_fs' = WriteFile(w_fs, w_path[p], SecKeyPem(KeyOf(p)), o)
          /\ w_written' = Changed(w_written, w_path[p], o)
          /\ w_pc' = [w_pc EXCEPT ![p] = IF o = "ok" THEN "writeCert" ELSE "done"]
          /\ w_err' = [w_err EXCEPT ![p] = IF o = "ok" THEN @ ELSE "write failed"]
    /\ UNCHANGED <<w_in, w_path>>
    /\ UNCHANGED notW

\* login.go 496-498: afs.WriteFile(pubkeyPath, certBytes + " openpubkey", 0644)
W_WriteCert(p) ==
    /\ w_pc[p] = "writeCert"
    /\ \E o \in WriteOutcomes :
          /\ w_fs' = WriteFile(w_fs, PubPath(w_path[p]),
                               CertFileBytes(CertBytes(KeyOf(p), TokOf(p))), o)
          /\ w_written' = Changed(w_written, w_path[p], o)
          /\ w_pc' = [w_pc EXCEPT ![p] = "done"]
          /\ w_err' = [w_err EXCEPT ![p] = IF o = "ok" THEN @ ELSE "write failed"]
    /\ UNCHANGED <<w_in, w_path>>
    /\ UNCHANGED notW

NextWriters ==
    \E p \in Logins :
        \/ W_Select(p)
        \/ W_WriteSec(p)
        \/ W_WriteCert(p)

SpecWriters == InitWriters /\ [][NextWriters]_vars

(***************************************************************************)
(* Claims about concurrent logins                                          *)
(***************************************************************************)
\* no process is between choosing its path and the return of writeKeys
NoWriteInProgress == \A p \in Logins : w_pc[p] \in {"start", "done"}

\* the secret key file at q and the certificate file at q.pub hold one key pair
SamePair(fs, q) ==
    LET sec == fs[q]
        cert == fs[PubPath(q)] IN
    /\ sec.st = "ok" /\ cert.st = "ok"
    /\ Len(sec.data) = 2 /\ Len(cert.data) = 4
    /\ sec.data[1] = "OPENSSH PRIVATE KEY" /\ cert.data[1] = CertType
    /\ sec.data[2] = cert.data[2]

\* C21: whenever no writeKeys call is in progress, the secret key file and the
\* certificate file at every path opkssh has written belong to the same ephemeral
\* key pair, also after a write that failed part-way and after any interleaving of
\* two login processes that write to the same path.
C21_PairConsistent ==
    NoWriteInProgress => \A q \in w_written : SamePair(w_fs, q)

====
